---- MODULE Spec2Model ----
(***************************************************************************)
(* Double-entry bookkeeping core of the mini banking platform.             *)
(*                                                                         *)
(* The committed PostgreSQL tables (users, accounts, transactions,         *)
(* transfer_details, exchange_details, ledger) are the shared state.       *)
(* Every worker runs one application-service call (Register, Transfer,     *)
(* Exchange) at a time inside trm.Do: its writes are buffered in pend[p]   *)
(* until Commit publishes them or Rollback drops them, and its row locks   *)
(* (SELECT ... FOR UPDATE) are held until then.  PostgreSQL runs the       *)
(* statements at READ COMMITTED: every statement sees the rows committed   *)
(* when it starts plus the writes of its own transaction.                  *)
(*                                                                         *)
(* Amounts are decimal.Decimal values, represented exactly as integers     *)
(* counting twentieth-thousandths of a currency unit (Unit = 1.00000):     *)
(* half of the last decimal place of a ledger amount, DECIMAL(19,4).       *)
(***************************************************************************)
EXTENDS Integers, Sequences, FiniteSets, TLC

(***************************************************************************)
(* Bounds of the model.                                                    *)
(***************************************************************************)
NumProcs == 2
MaxOps == 3
MaxUsers == 2

Procs == 1..NumProcs
Emails == 1..MaxUsers

(***************************************************************************)
(* Program constants.                                                      *)
(***************************************************************************)
Unit == 20000
Cent == Unit \div 100
LedgerStep == Unit \div 10000
RateScale == 1000000
UsdToEurRate == 920000

CashbookUserID == 1
CashbookUSD == 16
CashbookEUR == 17
GhostAccount == 9999

InitialUSD == 1000 * Unit
InitialEUR == 500 * Unit

Currency == {"USD", "EUR"}

UserIdOf(e) == 100 + e
UsdAccountOf(e) == 1000 + 2 * e
EurAccountOf(e) == 1001 + 2 * e
EmailRow(e) == e

AllAccountIDs ==
    {CashbookUSD, CashbookEUR} \cup {UsdAccountOf(e) : e \in Emails}
                               \cup {EurAccountOf(e) : e \in Emails}
Rows == AllAccountIDs \cup {EmailRow(e) : e \in Emails}

(***************************************************************************)
(* Decimal arithmetic.                                                     *)
(***************************************************************************)
Abs(x) == IF x < 0 THEN -x ELSE x

\* decimal.Decimal.Round and PostgreSQL numeric(p,s) coercion: round to a
\* multiple of step, halves away from zero.
RoundTo(x, step) ==
    IF x >= 0 THEN ((x + step \div 2) \div step) * step
              ELSE -(((-x + step \div 2) \div step) * step)

Round2(x) == RoundTo(x, Cent)
Round4(x) == RoundTo(x, LedgerStep)

\* <<q, r>> with a * b = q * d + r and 0 <= r < d, for a, b >= 0, computed by
\* doubling so that no intermediate value exceeds 2 * d.
RECURSIVE MulDivMod(_, _, _)
MulDivMod(a, b, d) ==
    IF b = 0 THEN <<0, 0>>
    ELSE LET h == MulDivMod(a, b \div 2, d)
             q2 == 2 * h[1] + ((2 * h[2]) \div d)
             r2 == (2 * h[2]) % d
         IN  IF b % 2 = 0 THEN <<q2, r2>>
             ELSE <<q2 + (a \div d) + ((r2 + (a % d)) \div d), (r2 + (a % d)) % d>>

\* a * b / d rounded to the nearest integer, halves up (a, b >= 0).
MulDivRound(a, b, d) ==
    LET qr == MulDivMod(a, b, d)
    IN  IF 2 * qr[2] >= d THEN qr[1] + 1 ELSE qr[1]

(***************************************************************************)
(* Errors.                                                                 *)
(***************************************************************************)
NoError == [kind |-> "nil"]
Err(k) == [kind |-> k]
\* An InsufficientFunds error with its two amounts swapped.
InsufficientFundsSwapped(id, requested, available) ==
    [kind |-> "InsufficientFunds", accountID |-> id,
     requested |-> available, available |-> requested]

InsufficientFundsError(id, requested, available) ==
    [kind |-> "InsufficientFunds", accountID |-> id,
     requested |-> requested, available |-> available]
\* The driver's no-rows error handed on as it is.
ErrNoRows(id) == [kind |-> "ErrNoRows"]
AccountNotFoundError(id) == [kind |-> "AccountNotFound", accountID |-> id]
AccountBalanceMismatchError(id, accountBalance, ledgerBalance) ==
    [kind |-> "AccountBalanceMismatch", accountID |-> id,
     accountBalance |-> accountBalance, ledgerBalance |-> ledgerBalance]
LedgerImbalanceError(c, sum) ==
    [kind |-> "LedgerImbalance", currency |-> c, sum |-> sum]

(***************************************************************************)
(* Money and Account.                                                      *)
(***************************************************************************)
Money(a, c) == [amount |-> a, currency |-> c]

NewAccount(id, userID, balance, currency) ==
    [id |-> id, userID |-> userID, balance |-> balance, currency |-> currency]

IsCashbook(a) == a.userID = CashbookUserID

GetCashbookAccount(c) == IF c = "EUR" THEN CashbookEUR ELSE CashbookUSD

\* A credit without the currency check.
CreditUnchecked(a, money) ==
    [err |-> NoError, acc |-> [a EXCEPT !.balance = @ + money.amount]]

\* Account.Credit: Money.Add refuses a different currency.
Credit(a, money) ==
    IF a.currency # money.currency
    THEN [err |-> Err("CurrencyMismatch"), acc |-> a]
    ELSE [err |-> NoError, acc |-> [a EXCEPT !.balance = @ + money.amount]]

\* A debit without the funds check.
DebitUnchecked(a, money) ==
    IF a.currency # money.currency
    THEN [err |-> Err("CurrencyMismatch"), acc |-> a]
    ELSE [err |-> NoError, acc |-> [a EXCEPT !.balance = @ - money.amount]]

\* Account.Debit: the funds check compares the amounts only and comes before
\* the currency check of Money.Sub.
Debit(a, money) ==
    IF ~IsCashbook(a) /\ a.balance < money.amount
    THEN [err |-> InsufficientFundsError(a.id, money.amount, a.balance), acc |-> a]
    ELSE IF a.currency # money.currency
    THEN [err |-> Err("CurrencyMismatch"), acc |-> a]
    ELSE [err |-> NoError, acc |-> [a EXCEPT !.balance = @ - money.amount]]

(***************************************************************************)
(* Exchange rates.                                                         *)
(***************************************************************************)
\* An inverse cut after six decimals.
InverseRateTruncated(r) ==
    LET q1 == (RateScale * 1000) \div r
        r1 == (RateScale * 1000) % r
    IN  q1 * 1000 + (r1 * 1000) \div r

\* decimal.NewFromInt(1).Div(rate).Round(6), by long division.
InverseRate(r) ==
    LET q1 == (RateScale * 1000) \div r
        r1 == (RateScale * 1000) % r
        q2 == (r1 * 1000) \div r
        r2 == (r1 * 1000) % r
    IN  q1 * 1000 + q2 + (IF 2 * r2 >= r THEN 1 ELSE 0)

NewExchangeRate(from, to, rate) ==
    IF from = to THEN [err |-> Err("SameCurrencyExchangeRate")]
    ELSE IF from \notin Currency \/ to \notin Currency
    THEN [err |-> Err("UnsupportedCurrency")]
    ELSE IF rate <= 0 THEN [err |-> Err("InvalidExchangeRate")]
    ELSE [err |-> NoError, from |-> from, to |-> to, rate |-> rate]

\* A provider without the test for equal currencies.
GetRateAnyPair(from, to) ==
    IF from = "USD" /\ to = "EUR" THEN NewExchangeRate(from, to, UsdToEurRate)
    ELSE IF from = "EUR" /\ to = "USD"
    THEN NewExchangeRate(from, to, InverseRate(UsdToEurRate))
    ELSE [err |-> Err("ExchangeRateNotFound")]

\* FixedExchangeRateProvider.GetRate of a provider built with usdToEurRate
ProviderGetRate(usdToEurRate, from, to) ==
    IF from = to THEN [err |-> Err("SameCurrencyExchangeRate")]
    ELSE IF from = "USD" /\ to = "EUR" THEN NewExchangeRate(from, to, usdToEurRate)
    ELSE IF from = "EUR" /\ to = "USD"
    THEN NewExchangeRate(from, to, InverseRate(usdToEurRate))
    ELSE [err |-> Err("ExchangeRateNotFound")]

\* GetRate of the provider the service is built with
GetRate(from, to) == ProviderGetRate(UsdToEurRate, from, to)

\* A conversion that cuts the product after two decimals.
ConvertTruncated(e, amount) ==
    IF amount.currency # e.from
    THEN [err |-> Err("CurrencyMismatch")]
    ELSE LET cents == MulDivMod(Abs(amount.amount), e.rate, RateScale * Cent)[1]
             signed == IF amount.amount < 0 THEN -cents ELSE cents
         IN  [err |-> NoError, money |-> Money(signed * Cent, e.to)]

\* A conversion that rounds the product up to the next cent.
ConvertRoundedUp(e, amount) ==
    IF amount.currency # e.from
    THEN [err |-> Err("CurrencyMismatch")]
    ELSE LET qr == MulDivMod(Abs(amount.amount), e.rate, RateScale * Cent)
             cents == IF qr[2] > 0 THEN qr[1] + 1 ELSE qr[1]
             signed == IF amount.amount < 0 THEN -cents ELSE cents
         IN  [err |-> NoError, money |-> Money(signed * Cent, e.to)]

\* ExchangeRate.Convert: amount.Mul(rate).Round(2) in the target currency.
Convert(e, amount) ==
    IF amount.currency # e.from
    THEN [err |-> Err("CurrencyMismatch")]
    ELSE LET cents == MulDivRound(Abs(amount.amount), e.rate, RateScale * Cent)
             signed == IF amount.amount < 0 THEN -cents ELSE cents
         IN  [err |-> NoError, money |-> Money(signed * Cent, e.to)]

CalculateExchangeAmount(sourceAmount, exchangeRate) == Convert(exchangeRate, sourceAmount)

(***************************************************************************)
(* Domain services and ledger entry builders.                              *)
(***************************************************************************)
NewTransaction(id, type, account) == [id |-> id, type |-> type, account |-> account]

NewLedgerRecord(id, transaction, account, money) ==
    [id |-> id, transaction |-> transaction, account |-> account,
     amount |-> money.amount, currency |-> money.currency]

ToNegative(m) == Money(-m.amount, m.currency)

NewTransferDetails(id, from, to, money) ==
    [id |-> id, transaction |-> NewTransaction(id, "transfer", from),
     recipient |-> to, money |-> money]

\* An Execute that does not look at the sign of the amount.
TransferExecuteAnySign(from, to, money, id) ==
    LET d == Debit(from, money) IN
    IF d.err # NoError THEN [err |-> d.err]
    ELSE LET c == Credit(to, money) IN
         IF c.err # NoError THEN [err |-> c.err]
         ELSE [err |-> NoError, from |-> d.acc, to |-> c.acc,
               details |-> NewTransferDetails(id, from.id, to.id, money)]

\* TransferService.Execute
TransferExecute(from, to, money, id) ==
    IF money.amount < 0 THEN [err |-> Err("NegativeTransfer")]
    ELSE LET d == Debit(from, money) IN
         IF d.err # NoError THEN [err |-> d.err]
         ELSE LET c == Credit(to, money) IN
              IF c.err # NoError THEN [err |-> c.err]
              ELSE [err |-> NoError, from |-> d.acc, to |-> c.acc,
                    details |-> NewTransferDetails(id, from.id, to.id, money)]

\* A validation that accepts every pair of records.
ValidateBalancedEntryLax(a, b) == NoError

\* validateBalancedEntry, and the same test inside TransferDetails.GetLedgerEntry
ValidateBalancedEntry(a, b) ==
    IF a.currency # b.currency THEN Err("CurrencyMismatch")
    ELSE IF a.amount + b.amount # 0 THEN Err("UnbalancedEntry")
    ELSE NoError

\* TransferDetails.GetLedgerEntry
GetLedgerEntry(td) ==
    LET first  == NewLedgerRecord(<<td.id, 1>>, td.transaction.id,
                                  td.transaction.account, ToNegative(td.money))
        second == NewLedgerRecord(<<td.id, 2>>, td.transaction.id,
                                  td.recipient, td.money)
        e == ValidateBalancedEntry(first, second)
    IN  IF e # NoError THEN [err |-> e] ELSE [err |-> NoError, records |-> <<first, second>>]

NewExchangeDetails(id, sourceAccount, targetAccount, sourceAmount, targetAmount) ==
    IF sourceAmount.currency = targetAmount.currency
    THEN [err |-> Err("SameCurrencyDetails")]
    ELSE [err |-> NoError,
          details |-> [id |-> id,
                       transaction |-> NewTransaction(id, "exchange", sourceAccount),
                       sourceAccount |-> sourceAccount, targetAccount |-> targetAccount,
                       sourceAmount |-> sourceAmount, targetAmount |-> targetAmount]]

\* getCashbookForCurrency
GetCashbookForCurrency(cashbookUSD, cashbookEUR, currency) ==
    IF currency = "USD" THEN cashbookUSD ELSE cashbookEUR

\* ExchangeService.Execute, last part: NewExchangeDetails.
ExchangeDetailed(source, target, cashbookUSD, cashbookEUR, nd) ==
    IF nd.err # NoError THEN [err |-> nd.err]
    ELSE [err |-> NoError, source |-> source, target |-> target,
          cashbookUSD |-> cashbookUSD, cashbookEUR |-> cashbookEUR,
          details |-> nd.details]

\* ExchangeService.Execute after targetCashbook.Debit(targetAmount) gave tc.
ExchangeCashbookDebited(source, target, cashbookUSD, cashbookEUR, s, t, id, tc) ==
    IF tc.err # NoError THEN [err |-> tc.err]
    ELSE ExchangeDetailed(source, target,
                          IF t.currency = "USD" THEN tc.acc ELSE cashbookUSD,
                          IF t.currency = "USD" THEN cashbookEUR ELSE tc.acc,
                          NewExchangeDetails(id, source.id, target.id, s, t))

\* ExchangeService.Execute: targetCashbook.Debit(targetAmount).
ExchangeDebitCashbook(source, target, cashbookUSD, cashbookEUR, s, t, id) ==
    ExchangeCashbookDebited(source, target, cashbookUSD, cashbookEUR, s, t, id,
        Debit(GetCashbookForCurrency(cashbookUSD, cashbookEUR, t.currency), t))

\* ExchangeService.Execute after sourceCashbook.Credit(sourceAmount) gave sc.
ExchangeCashbookCredited(source, target, cashbookUSD, cashbookEUR, s, t, id, sc) ==
    IF sc.err # NoError THEN [err |-> sc.err]
    ELSE ExchangeDebitCashbook(source, target,
                               IF s.currency = "USD" THEN sc.acc ELSE cashbookUSD,
                               IF s.currency = "USD" THEN cashbookEUR ELSE sc.acc,
                               s, t, id)

\* ExchangeService.Execute after sourceAccount.Debit(sourceAmount) gave d and
\* targetAccount.Credit(targetAmount) gave c.
ExchangeMoved(d, c, cashbookUSD, cashbookEUR, s, t, id) ==
    IF d.err # NoError THEN [err |-> d.err]
    ELSE IF c.err # NoError THEN [err |-> c.err]
    ELSE ExchangeCashbookCredited(d.acc, c.acc, cashbookUSD, cashbookEUR, s, t, id,
             Credit(GetCashbookForCurrency(cashbookUSD, cashbookEUR, s.currency), s))

\* ExchangeService.Execute after CalculateExchangeAmount gave t.
ExchangeConverted(sourceAccount, targetAccount, cashbookUSD, cashbookEUR, s, t, id) ==
    IF t.err # NoError THEN [err |-> t.err]
    ELSE ExchangeMoved(Debit(sourceAccount, s), Credit(targetAccount, t.money),
                       cashbookUSD, cashbookEUR, s, t.money, id)

\* An Execute that does not look at the sign of the source amount.
ExchangeExecuteAnySign(sourceAccount, targetAccount, cashbookUSD, cashbookEUR, sourceAmount, exchangeRate, id) ==
    IF sourceAccount.currency = targetAccount.currency
    THEN [err |-> Err("SameCurrencyExchange")]
    ELSE IF exchangeRate.from # sourceAmount.currency
    THEN [err |-> Err("CurrencyMismatch")]
    ELSE IF exchangeRate.to # targetAccount.currency
    THEN [err |-> Err("CurrencyMismatch")]
    ELSE ExchangeConverted(sourceAccount, targetAccount, cashbookUSD, cashbookEUR,
                           sourceAmount,
                           CalculateExchangeAmount(sourceAmount, exchangeRate), id)

\* ExchangeService.Execute.  The four accounts are four separate in-memory
\* objects even when two of them were read from the same row.
ExchangeExecute(sourceAccount, targetAccount, cashbookUSD, cashbookEUR, sourceAmount, exchangeRate, id) ==
    IF sourceAmount.amount < 0 THEN [err |-> Err("NegativeExchange")]
    ELSE IF sourceAmount.amount = 0 THEN [err |-> Err("ZeroExchange")]
    ELSE IF sourceAccount.currency = targetAccount.currency
    THEN [err |-> Err("SameCurrencyExchange")]
    ELSE IF exchangeRate.from # sourceAmount.currency
    THEN [err |-> Err("CurrencyMismatch")]
    ELSE IF exchangeRate.to # targetAccount.currency
    THEN [err |-> Err("CurrencyMismatch")]
    ELSE ExchangeConverted(sourceAccount, targetAccount, cashbookUSD, cashbookEUR,
                           sourceAmount,
                           CalculateExchangeAmount(sourceAmount, exchangeRate), id)

\* ExchangeDetails.GetLedgerEntries (buildSourceCurrencyEntry, buildTargetCurrencyEntry)
GetLedgerEntries(ed) ==
    LET userDebit == NewLedgerRecord(<<ed.id, 1>>, ed.transaction.id,
                        ed.sourceAccount, ToNegative(ed.sourceAmount))
        cashbookCredit == NewLedgerRecord(<<ed.id, 2>>, ed.transaction.id,
                        GetCashbookAccount(ed.sourceAmount.currency), ed.sourceAmount)
        cashbookDebit == NewLedgerRecord(<<ed.id, 3>>, ed.transaction.id,
                        GetCashbookAccount(ed.targetAmount.currency),
                        ToNegative(ed.targetAmount))
        userCredit == NewLedgerRecord(<<ed.id, 4>>, ed.transaction.id,
                        ed.targetAccount, ed.targetAmount)
        e1 == ValidateBalancedEntry(userDebit, cashbookCredit)
        e2 == ValidateBalancedEntry(cashbookDebit, userCredit)
    IN  IF e1 # NoError THEN [err |-> e1]
        ELSE IF e2 # NoError THEN [err |-> e2]
        ELSE [err |-> NoError,
              records |-> <<userDebit, cashbookCredit, cashbookDebit, userCredit>>]

(***************************************************************************)
(* Storage: tables, the writes of an open transaction, repositories.       *)
(***************************************************************************)
Upsert(f, k, v) == [x \in DOMAIN f \cup {k} |-> IF x = k THEN v ELSE f[x]]

Overlay(f, g) == [x \in DOMAIN f \cup DOMAIN g |-> IF x \in DOMAIN g THEN g[x] ELSE f[x]]

RECURSIVE SumAmounts(_)
SumAmounts(S) ==
    IF S = {} THEN 0
    ELSE LET r == CHOOSE x \in S : TRUE IN r.amount + SumAmounts(S \ {r})

NoRows == [x \in {} |-> 0]

\* No write yet: the state of a transaction right after BEGIN.
EmptyTx ==
    [users |-> {}, accounts |-> NoRows, transactions |-> {},
     transferDetails |-> {}, exchangeDetails |-> {}, ledger |-> {}]

\* migrations 000001 and 000002: the cashbook user and its two accounts at 0.
SeededDB ==
    [users |-> {},
     accounts |-> [id \in {CashbookUSD, CashbookEUR} |->
                     [userID |-> CashbookUserID, balance |-> 0,
                      currency |-> IF id = CashbookUSD THEN "USD" ELSE "EUR"]],
     transactions |-> {}, transferDetails |-> {}, exchangeDetails |-> {},
     ledger |-> {}]

\* What the statements of a transaction with writes w see of committed state d.
View(d, w) ==
    [users |-> d.users \cup w.users,
     accounts |-> Overlay(d.accounts, w.accounts),
     transactions |-> d.transactions \cup w.transactions,
     transferDetails |-> d.transferDetails \cup w.transferDetails,
     exchangeDetails |-> d.exchangeDetails \cup w.exchangeDetails,
     ledger |-> d.ledger \cup w.ledger]

\* accounts row -> domain.Account (AccountsRepository.GetForUpdate / Get)
LoadAccount(v, id) ==
    NewAccount(id, v.accounts[id].userID, v.accounts[id].balance, v.accounts[id].currency)

\* AccountsRepository.Save: upsert; the balance column is DECIMAL(19,2) and an
\* existing row keeps its user_id.
Save(w, v, a) ==
    [w EXCEPT !.accounts =
        Upsert(@, a.id,
               [userID |-> IF a.id \in DOMAIN v.accounts
                           THEN v.accounts[a.id].userID ELSE a.userID,
                balance |-> Round2(a.balance),
                currency |-> a.currency])]

\* s.accounts.Save(ctx, a) inside the transaction with writes w on committed
\* state d: the writes afterwards.
SaveIn(d, w, a) == Save(w, View(d, w), a)

\* insertLedgerRecord: the amount column is DECIMAL(19,4).
LedgerRow(r) == [r EXCEPT !.amount = Round4(r.amount)]

\* An insert whose transfer_details table has no positive-amount constraint.
TransfersInsertUnchecked(w, td) ==
    [err |-> NoError,
     w |-> [w EXCEPT
              !.transactions = @ \cup {td.transaction},
              !.transferDetails = @ \cup
                  {[id |-> td.id, transaction |-> td.transaction.id,
                    recipient |-> td.recipient,
                    amount |-> Round2(td.money.amount),
                    currency |-> td.money.currency]},
              !.ledger = @ \cup {LedgerRow(GetLedgerEntry(td).records[i]) : i \in 1..2}]]

\* TransfersRepository.Insert inside a transaction: transactions row,
\* transfer_details row (amount DECIMAL(19,2), CHECK amount > 0), two ledger rows.
TransfersInsert(w, td) ==
    IF Round2(td.money.amount) <= 0
    THEN [err |-> Err("CheckViolation"), w |-> w]
    ELSE LET le == GetLedgerEntry(td) IN
         IF le.err # NoError THEN [err |-> le.err, w |-> w]
         ELSE [err |-> NoError,
               w |-> [w EXCEPT
                        !.transactions = @ \cup {td.transaction},
                        !.transferDetails = @ \cup
                            {[id |-> td.id, transaction |-> td.transaction.id,
                              recipient |-> td.recipient,
                              amount |-> Round2(td.money.amount),
                              currency |-> td.money.currency]},
                        !.ledger = @ \cup {LedgerRow(le.records[i]) : i \in 1..2}]]

\* ExchangesRepository.Insert inside a transaction: transactions row,
\* exchange_details row (amounts and rate DECIMAL(19,2), each CHECKed > 0,
\* currencies CHECKed different), four ledger rows.
\* ExchangeDetails.ExchangeRate is targetAmount / sourceAmount; as DECIMAL(19,2)
\* it is positive exactly when the quotient is at least 0.005.
ExchangesInsert(w, ed) ==
    IF \/ Round2(ed.sourceAmount.amount) <= 0
       \/ Round2(ed.targetAmount.amount) <= 0
       \/ ed.targetAmount.amount < (ed.sourceAmount.amount + 199) \div 200
       \/ ed.sourceAmount.currency = ed.targetAmount.currency
    THEN [err |-> Err("CheckViolation"), w |-> w]
    ELSE LET le == GetLedgerEntries(ed) IN
         IF le.err # NoError THEN [err |-> le.err, w |-> w]
         ELSE [err |-> NoError,
               w |-> [w EXCEPT
                        !.transactions = @ \cup {ed.transaction},
                        !.exchangeDetails = @ \cup
                            {[id |-> ed.id, transaction |-> ed.transaction.id,
                              sourceAccount |-> ed.sourceAccount,
                              targetAccount |-> ed.targetAccount,
                              sourceAmount |-> Round2(ed.sourceAmount.amount),
                              sourceCurrency |-> ed.sourceAmount.currency,
                              targetAmount |-> Round2(ed.targetAmount.amount),
                              targetCurrency |-> ed.targetAmount.currency]},
                        !.ledger = @ \cup {LedgerRow(le.records[i]) : i \in 1..4}]]

\* Service.Transfer after s.transfers.Insert gave ins: s.accounts.Save(from),
\* s.accounts.Save(to).  mem is what the handler's account variables hold.
TransferInserted(d, ins, x) ==
    IF ins.err # NoError THEN [err |-> ins.err]
    ELSE [err |-> NoError,
          w |-> SaveIn(d, SaveIn(d, ins.w, x.from), x.to),
          mem |-> [from |-> x.from, to |-> x.to]]

\* Service.Transfer after s.transfer.Execute gave x: s.transfers.Insert.
TransferExecuted(d, w, x) ==
    IF x.err # NoError THEN [err |-> x.err]
    ELSE TransferInserted(d, TransfersInsert(w, x.details), x)

\* s.transfer.Execute(from, to, money), s.transfers.Insert, s.accounts.Save(from),
\* s.accounts.Save(to) inside the transaction with writes w.
TransferWrites(d, w, from, to, money, id) ==
    TransferExecuted(d, w, TransferExecute(from, to, money, id))

\* Service.Exchange after s.exchanges.Insert gave ins: the four
\* s.accounts.Save, in the order source, target, USD cashbook, EUR cashbook.
ExchangeInserted(d, ins, x) ==
    IF ins.err # NoError THEN [err |-> ins.err]
    ELSE [err |-> NoError,
          w |-> SaveIn(d, SaveIn(d, SaveIn(d, SaveIn(d, ins.w, x.source),
                                           x.target),
                                 x.cashbookUSD),
                       x.cashbookEUR),
          mem |-> [sourceAccount |-> x.source, targetAccount |-> x.target,
                   usdCashbookAccount |-> x.cashbookUSD,
                   eurCashbookAccount |-> x.cashbookEUR]]

\* Service.Exchange after s.exchange.Execute gave x: s.exchanges.Insert.
ExchangeExecuted(d, w, x) ==
    IF x.err # NoError THEN [err |-> x.err]
    ELSE ExchangeInserted(d, ExchangesInsert(w, x.details), x)

\* Service.Exchange after s.exchangeRateProvider.GetRate gave rate:
\* s.exchange.Execute on the four locked accounts m.
ExchangeRated(d, w, m, sourceAmount, rate, id) ==
    IF rate.err # NoError THEN [err |-> rate.err]
    ELSE ExchangeExecuted(d, w,
             ExchangeExecute(m["sourceAccount"], m["targetAccount"],
                             m["usdCashbookAccount"], m["eurCashbookAccount"],
                             sourceAmount, rate, id))

\* s.exchangeRateProvider.GetRate, s.exchange.Execute, s.exchanges.Insert and
\* the four s.accounts.Save inside the transaction with writes w.
ExchangeWrites(d, w, m, sourceAmount, id) ==
    ExchangeRated(d, w, m, sourceAmount,
                  GetRate(sourceAmount.currency, m["targetAccount"].currency), id)

\* Service.Register: s.users.Save and the s.accounts.Save of the two new
\* zero-balance accounts of email e.
NewUserWrites(d, w, e) ==
    SaveIn(d, SaveIn(d, [w EXCEPT !.users = @ \cup {e}],
                     NewAccount(UsdAccountOf(e), UserIdOf(e), 0, "USD")),
           NewAccount(EurAccountOf(e), UserIdOf(e), 0, "EUR"))

\* LedgerRepository.GetTotalBalanceByCurrency: SUM(amount) GROUP BY currency
GetTotalBalanceByCurrency(v) ==
    [c \in {r.currency : r \in v.ledger} |->
        SumAmounts({r \in v.ledger : r.currency = c})]

\* LedgerRepository.GetAccountBalance: COALESCE(SUM(amount), 0) WHERE account = id
GetAccountBalance(v, id) == SumAmounts({r \in v.ledger : r.account = id})

\* LedgerRepository.GetAccountBalanceMismatches
GetAccountBalanceMismatches(v) ==
    {[accountID |-> id, accountBalance |-> v.accounts[id].balance,
      ledgerBalance |-> GetAccountBalance(v, id),
      currency |-> v.accounts[id].currency] :
        id \in {x \in DOMAIN v.accounts :
                  v.accounts[x].balance # GetAccountBalance(v, x)}}

\* Service.CheckLedgerBalanceByCurrency: the errors it may return (the map is
\* ranged over in no fixed order); empty when every total is zero.
LedgerBalanceErrors(v) ==
    LET totals == GetTotalBalanceByCurrency(v)
    IN  {LedgerImbalanceError(c, totals[c]) : c \in {x \in DOMAIN totals : totals[x] # 0}}

\* Service.checkAccountLedgerConsistency: the in-memory balance of the
\* aggregate against the ledger sum of its rows.
CheckAccountLedgerConsistency(v, a) ==
    LET ledgerBalance == GetAccountBalance(v, a.id)
    IN  IF ledgerBalance # a.balance
        THEN AccountBalanceMismatchError(a.id, a.balance, ledgerBalance)
        ELSE NoError

(***************************************************************************)
(* The state.                                                              *)
(***************************************************************************)
VARIABLES
    db,      \* the committed tables
    locks,   \* row -> the worker whose open transaction holds its lock, or 0
    pc,      \* worker -> the statement it is about to run
    op,      \* worker -> the command of its current (or last) call
    mem,     \* worker -> the aggregates fetched by its call, by variable name
    pend,    \* worker -> the writes of its open transaction
    err,     \* worker -> the error fn returned to DoTx
    result,  \* worker -> what its last call returned
    nOps     \* number of calls started so far

vars == <<db, locks, pc, op, mem, pend, err, result, nOps>>

NoOp == [kind |-> "none"]
NoMem == [x \in {} |-> 0]

\* Inputs of the calls.
SubCent == Cent \div 2
TransferAmounts == {SubCent, 600 * Unit}
ExchangeAmounts == {SubCent + Cent, 600 * Unit}
KnownAccounts == DOMAIN db.accounts \cup {GhostAccount}
AccountsIn(c) == {id \in DOMAIN db.accounts : db.accounts[id].currency = c}
UserAccounts == {id \in DOMAIN db.accounts : db.accounts[id].userID # CashbookUserID}

Init ==
    /\ db = SeededDB
    /\ locks = [r \in Rows |-> 0]
    /\ pc = [p \in Procs |-> "idle"]
    /\ op = [p \in Procs |-> NoOp]
    /\ mem = [p \in Procs |-> NoMem]
    /\ pend = [p \in Procs |-> EmptyTx]
    /\ err = [p \in Procs |-> NoError]
    /\ result = [p \in Procs |-> NoError]
    /\ nOps = 0

(***************************************************************************)
(* trm.TransactionManager.DoTx                                             *)
(***************************************************************************)
\* A DoTx that enters fn on the transaction of the call before, without
\* the factory.
BeginReusesTransaction(p, cmd, first) ==
    /\ pc[p] = "idle"
    /\ nOps < MaxOps
    /\ op' = [op EXCEPT ![p] = cmd @@ [id |-> nOps + 1]]
    /\ pc' = [pc EXCEPT ![p] = first]
    /\ mem' = [mem EXCEPT ![p] = NoMem]
    /\ err' = [err EXCEPT ![p] = NoError]
    /\ UNCHANGED <<db, locks, result, pend, nOps>>

\* factory(ctx, opts) and withTx: a new transaction is begun and fn entered.
Begin(p, cmd, first) ==
    /\ pc[p] = "idle"
    /\ nOps < MaxOps
    /\ nOps' = nOps + 1
    /\ op' = [op EXCEPT ![p] = cmd @@ [id |-> nOps + 1]]
    /\ pc' = [pc EXCEPT ![p] = first]
    /\ mem' = [mem EXCEPT ![p] = NoMem]
    /\ pend' = [pend EXCEPT ![p] = EmptyTx]
    /\ err' = [err EXCEPT ![p] = NoError]
    /\ UNCHANGED <<db, locks, result>>

\* fn returns an error: DoTx goes to tx.Rollback().
Fail(p, e) ==
    /\ pc' = [pc EXCEPT ![p] = "rollback"]
    /\ err' = [err EXCEPT ![p] = e]

Goto(p, next) ==
    /\ pc' = [pc EXCEPT ![p] = next]
    /\ UNCHANGED err

ReleaseLocks(p) == [r \in Rows |-> IF locks[r] = p THEN 0 ELSE locks[r]]

\* A rollback that lets the writes of the failed call through.
RollbackKeepsWrites(p) ==
    /\ pc[p] = "rollback"
    /\ db' = View(db, pend[p])
    /\ locks' = ReleaseLocks(p)
    /\ pend' = [pend EXCEPT ![p] = EmptyTx]
    /\ mem' = [mem EXCEPT ![p] = NoMem]
    /\ result' = [result EXCEPT ![p] = err[p]]
    /\ pc' = [pc EXCEPT ![p] = "done"]
    /\ UNCHANGED <<op, err, nOps>>

\* A rollback after which DoTx returns nil.
RollbackReturnsNil(p) ==
    /\ pc[p] = "rollback"
    /\ locks' = ReleaseLocks(p)
    /\ pend' = [pend EXCEPT ![p] = EmptyTx]
    /\ mem' = [mem EXCEPT ![p] = NoMem]
    /\ result' = [result EXCEPT ![p] = NoError]
    /\ pc' = [pc EXCEPT ![p] = "done"]
    /\ UNCHANGED <<db, op, err, nOps>>

\* tx.Rollback() after fn failed: the writes are dropped, the locks released,
\* DoTx returns fn's error.
Rollback(p) ==
    /\ pc[p] = "rollback"
    /\ locks' = ReleaseLocks(p)
    /\ pend' = [pend EXCEPT ![p] = EmptyTx]
    /\ mem' = [mem EXCEPT ![p] = NoMem]
    /\ result' = [result EXCEPT ![p] = err[p]]
    /\ pc' = [pc EXCEPT ![p] = "done"]
    /\ UNCHANGED <<db, op, err, nOps>>

\* A commit that loses the debit rows of the ledger writes.
PublishDebitsLost(d, w) ==
    [users |-> d.users \cup w.users,
     accounts |-> Overlay(d.accounts, w.accounts),
     transactions |-> d.transactions \cup w.transactions,
     transferDetails |-> d.transferDetails \cup w.transferDetails,
     exchangeDetails |-> d.exchangeDetails \cup w.exchangeDetails,
     ledger |-> d.ledger \cup {r \in w.ledger : r.amount > 0}]

\* A commit that replaces the history tables by the rows of the transaction.
PublishReplacesHistory(d, w) ==
    [users |-> d.users \cup w.users,
     accounts |-> Overlay(d.accounts, w.accounts),
     transactions |-> w.transactions,
     transferDetails |-> w.transferDetails,
     exchangeDetails |-> w.exchangeDetails,
     ledger |-> w.ledger]

Publish(d, w) ==
    [users |-> d.users \cup w.users,
     accounts |-> Overlay(d.accounts, w.accounts),
     transactions |-> d.transactions \cup w.transactions,
     transferDetails |-> d.transferDetails \cup w.transferDetails,
     exchangeDetails |-> d.exchangeDetails \cup w.exchangeDetails,
     ledger |-> d.ledger \cup w.ledger]

\* tx.Commit() succeeds after fn returned nil: every write becomes visible at
\* once, the locks are released, DoTx returns nil.
Commit(p) ==
    /\ pc[p] = "commit"
    /\ db' = Publish(db, pend[p])
    /\ locks' = ReleaseLocks(p)
    /\ pend' = [pend EXCEPT ![p] = EmptyTx]
    /\ mem' = [mem EXCEPT ![p] = NoMem]
    /\ result' = [result EXCEPT ![p] = NoError]
    /\ pc' = [pc EXCEPT ![p] = "done"]
    /\ UNCHANGED <<op, err, nOps>>

\* tx.Commit() fails: DoTx rolls back and returns the commit failure.
CommitFail(p) ==
    /\ pc[p] = "commit"
    /\ locks' = ReleaseLocks(p)
    /\ pend' = [pend EXCEPT ![p] = EmptyTx]
    /\ mem' = [mem EXCEPT ![p] = NoMem]
    /\ result' = [result EXCEPT ![p] = Err("CommitFailed")]
    /\ pc' = [pc EXCEPT ![p] = "done"]
    /\ UNCHANGED <<db, op, err, nOps>>

\* trm.factory fails: DoTx returns the failure to begin and fn is not invoked.
BeginFail(p, cmd) ==
    /\ pc[p] = "idle"
    /\ nOps < MaxOps
    /\ nOps' = nOps + 1
    /\ op' = [op EXCEPT ![p] = cmd @@ [id |-> nOps + 1]]
    /\ pc' = [pc EXCEPT ![p] = "done"]
    /\ result' = [result EXCEPT ![p] = Err("BeginFailed")]
    /\ UNCHANGED <<db, locks, mem, pend, err>>

\* tx.Rollback() itself fails after fn failed (the connection is lost or the
\* context is cancelled): the storage drops the open transaction with its
\* writes and locks, and DoTx returns the rollback failure in place of fn's
\* error.
RollbackFail(p) ==
    /\ pc[p] = "rollback"
    /\ locks' = ReleaseLocks(p)
    /\ pend' = [pend EXCEPT ![p] = EmptyTx]
    /\ mem' = [mem EXCEPT ![p] = NoMem]
    /\ result' = [result EXCEPT ![p] = Err("RollbackFailed")]
    /\ pc' = [pc EXCEPT ![p] = "done"]
    /\ UNCHANGED <<db, op, err, nOps>>

\* tx.Commit() fails and the tx.Rollback() that follows fails too: DoTx
\* returns the rollback failure.
CommitFailRollbackFail(p) ==
    /\ pc[p] = "commit"
    /\ locks' = ReleaseLocks(p)
    /\ pend' = [pend EXCEPT ![p] = EmptyTx]
    /\ mem' = [mem EXCEPT ![p] = NoMem]
    /\ result' = [result EXCEPT ![p] = Err("RollbackFailed")]
    /\ pc' = [pc EXCEPT ![p] = "done"]
    /\ UNCHANGED <<db, op, err, nOps>>

\* The call has returned to its caller; the worker is free for the next one.
Return(p) ==
    /\ pc[p] = "done"
    /\ pc' = [pc EXCEPT ![p] = "idle"]
    /\ op' = [op EXCEPT ![p] = NoOp]
    /\ result' = [result EXCEPT ![p] = NoError]
    /\ err' = [err EXCEPT ![p] = NoError]
    /\ UNCHANGED <<db, locks, mem, pend, nOps>>

(***************************************************************************)
(* AccountsRepository.GetForUpdate inside a transaction                    *)
(***************************************************************************)
\* A SELECT ... FOR UPDATE that waits while another open transaction holds any
\* row of the table.
GetForUpdateTableLock(p, id, name, next) ==
    LET v == View(db, pend[p]) IN
    IF id \notin DOMAIN v.accounts
    THEN /\ Fail(p, AccountNotFoundError(id))
         /\ UNCHANGED <<db, locks, op, mem, pend, result, nOps>>
    ELSE /\ \A r \in Rows : locks[r] \in {0, p}
         /\ locks' = [locks EXCEPT ![id] = p]
         /\ mem' = [mem EXCEPT ![p] = Upsert(@, name, LoadAccount(v, id))]
         /\ Goto(p, next)
         /\ UNCHANGED <<db, op, pend, result, nOps>>

\* SELECT ... FOR UPDATE waits while another open transaction holds the row,
\* then reads the latest committed row (or the transaction's own write).
GetForUpdate(p, id, name, next) ==
    LET v == View(db, pend[p]) IN
    IF id \notin DOMAIN v.accounts
    THEN /\ Fail(p, AccountNotFoundError(id))
         /\ UNCHANGED <<db, locks, op, mem, pend, result, nOps>>
    ELSE /\ locks[id] \in {0, p}
         /\ locks' = [locks EXCEPT ![id] = p]
         /\ mem' = [mem EXCEPT ![p] = Upsert(@, name, LoadAccount(v, id))]
         /\ Goto(p, next)
         /\ UNCHANGED <<db, op, pend, result, nOps>>

\* The row a worker is about to lock, 0 when its next statement locks none.
Wanted(p) ==
    CASE pc[p] = "t_from"   -> op[p].from
      [] pc[p] = "t_to"     -> op[p].to
      [] pc[p] = "x_source" -> op[p].sourceAccount
      [] pc[p] = "x_target" -> op[p].targetAccount
      [] pc[p] \in {"x_usd", "r_usd"} -> CashbookUSD
      [] pc[p] \in {"x_eur", "r_eur"} -> CashbookEUR
      [] pc[p] = "r_user"   -> EmailRow(op[p].email)
      [] OTHER -> 0

\* p waits for a lock that q holds.
WaitsFor(p, q) ==
    /\ p # q
    /\ Wanted(p) \in Rows
    /\ locks[Wanted(p)] = q

RECURSIVE WaitReach(_, _)
WaitReach(S, n) ==
    IF n = 0 THEN S
    ELSE WaitReach(S \cup {q \in Procs : \E r \in S : WaitsFor(r, q)}, n - 1)

\* p is part of a cycle of workers each waiting for the next one's lock.
InWaitCycle(p) ==
    p \in WaitReach({q \in Procs : WaitsFor(p, q)}, NumProcs)

\* PostgreSQL's deadlock detector aborts the statement of one waiter of the
\* cycle: the query of GetForUpdate returns an error.
DeadlockDetected(p) ==
    /\ InWaitCycle(p)
    /\ Fail(p, Err("DeadlockDetected"))
    /\ UNCHANGED <<db, locks, op, mem, pend, result, nOps>>

(***************************************************************************)
(* The invariant checks run inside every unit of work.                     *)
(***************************************************************************)
CheckNames(kind) ==
    CASE kind = "transfer" -> <<"from", "to">>
      [] kind = "exchange" -> <<"sourceAccount", "targetAccount",
                                "usdCashbookAccount", "eurCashbookAccount">>
      [] kind = "register" -> <<"usdAccount", "eurAccount">>

\* s.CheckLedgerBalanceByCurrency(ctx)
CheckLedger(p) ==
    /\ pc[p] = "checkLedger"
    /\ LET errs == LedgerBalanceErrors(View(db, pend[p])) IN
       IF errs = {} THEN Goto(p, "checkAccounts")
       ELSE \E e \in errs : Fail(p, e)
    /\ UNCHANGED <<db, locks, op, mem, pend, result, nOps>>

\* A handler that goes to the commit without checkAccountLedgerConsistency.
CheckAccountsSkipped(p) ==
    /\ pc[p] = "checkAccounts"
    /\ Goto(p, "commit")
    /\ UNCHANGED <<db, locks, op, mem, pend, result, nOps>>

\* s.checkAccountLedgerConsistency(ctx, a) for each aggregate of the call, in
\* the order of the code; the first mismatch is returned.
CheckAccounts(p) ==
    /\ pc[p] = "checkAccounts"
    /\ LET v == View(db, pend[p])
           names == CheckNames(op[p].kind)
           bad == {i \in 1..Len(names) :
                     CheckAccountLedgerConsistency(v, mem[p][names[i]]) # NoError}
       IN  IF bad = {} THEN Goto(p, "commit")
           ELSE LET i == CHOOSE x \in bad : \A y \in bad : x <= y
                IN  Fail(p, CheckAccountLedgerConsistency(v, mem[p][names[i]]))
    /\ UNCHANGED <<db, locks, op, mem, pend, result, nOps>>

\* The handler goes on with the writes and the accounts of r, or returns r's
\* error (the deferred rollback follows).
Written(p, r, next) ==
    IF r.err # NoError
    THEN Fail(p, r.err) /\ UNCHANGED <<mem, pend>>
    ELSE /\ pend' = [pend EXCEPT ![p] = r.w]
         /\ mem' = [mem EXCEPT ![p] = r.mem]
         /\ Goto(p, next)

\* The same for a funding transfer of Register, which holds the accounts of r
\* in its variables cashbook and account.
Funded(p, cashbook, account, r, next) ==
    IF r.err # NoError
    THEN Fail(p, r.err) /\ UNCHANGED <<mem, pend>>
    ELSE /\ pend' = [pend EXCEPT ![p] = r.w]
         /\ mem' = [mem EXCEPT ![p] =
                      [n \in DOMAIN mem[p] |->
                         IF n = cashbook THEN r.mem["from"]
                         ELSE IF n = account THEN r.mem["to"]
                         ELSE mem[p][n]]]
         /\ Goto(p, next)

(***************************************************************************)
(* Service.Transfer                                                        *)
(***************************************************************************)
StartTransfer(p) ==
    \E from \in AccountsIn("USD"), to \in AccountsIn("USD"), a \in TransferAmounts :
        Begin(p, [kind |-> "transfer", from |-> from, to |-> to,
                  money |-> Money(a, "USD")], "t_from")

TransferLockFrom(p) ==
    /\ pc[p] = "t_from"
    /\ GetForUpdate(p, op[p].from, "from", "t_to")

TransferLockTo(p) ==
    /\ pc[p] = "t_to"
    /\ GetForUpdate(p, op[p].to, "to", "t_exec")

\* s.transfer.Execute, s.transfers.Insert, s.accounts.Save(from), Save(to)
TransferRun(p) ==
    /\ pc[p] = "t_exec"
    /\ Written(p, TransferWrites(db, pend[p], mem[p]["from"], mem[p]["to"],
                                 op[p].money, <<op[p].id, 1>>),
               "checkLedger")
    /\ UNCHANGED <<db, locks, op, result, nOps>>

(***************************************************************************)
(* Service.Exchange                                                        *)
(***************************************************************************)
StartExchange(p) ==
    \E src \in UserAccounts, tgt \in UserAccounts, a \in ExchangeAmounts :
        Begin(p, [kind |-> "exchange", sourceAccount |-> src, targetAccount |-> tgt,
                  sourceAmount |-> Money(a, db.accounts[src].currency)], "x_source")

ExchangeLockSource(p) ==
    /\ pc[p] = "x_source"
    /\ GetForUpdate(p, op[p].sourceAccount, "sourceAccount", "x_target")

ExchangeLockTarget(p) ==
    /\ pc[p] = "x_target"
    /\ GetForUpdate(p, op[p].targetAccount, "targetAccount", "x_usd")

ExchangeLockUSD(p) ==
    /\ pc[p] = "x_usd"
    /\ GetForUpdate(p, GetCashbookAccount("USD"), "usdCashbookAccount", "x_eur")

ExchangeLockEUR(p) ==
    /\ pc[p] = "x_eur"
    /\ GetForUpdate(p, GetCashbookAccount("EUR"), "eurCashbookAccount", "x_exec")

\* s.exchangeRateProvider.GetRate, s.exchange.Execute, s.exchanges.Insert and
\* the four s.accounts.Save, in the order source, target, USD cashbook, EUR
\* cashbook.
ExchangeRun(p) ==
    /\ pc[p] = "x_exec"
    /\ Written(p, ExchangeWrites(db, pend[p], mem[p], op[p].sourceAmount,
                                 <<op[p].id, 1>>),
               "checkLedger")
    /\ UNCHANGED <<db, locks, op, result, nOps>>

(***************************************************************************)
(* Service.Register                                                        *)
(***************************************************************************)
StartRegister(p) ==
    \E e \in Emails : Begin(p, [kind |-> "register", email |-> e], "r_exists")

\* s.users.ExistsByEmail
RegisterExists(p) ==
    /\ pc[p] = "r_exists"
    /\ IF op[p].email \in View(db, pend[p]).users
       THEN Fail(p, Err("UserAlreadyExists"))
       ELSE Goto(p, "r_user")
    /\ UNCHANGED <<db, locks, op, mem, pend, result, nOps>>

\* s.users.Save and the s.accounts.Save of the two new zero-balance accounts.
\* The INSERT waits while another open transaction has inserted the same
\* email, and violates the unique index once that email is committed.
RegisterSaveUser(p) ==
    /\ pc[p] = "r_user"
    /\ IF op[p].email \in db.users
       THEN /\ Fail(p, Err("UniqueViolation"))
            /\ UNCHANGED <<locks, mem, pend>>
       ELSE /\ locks[EmailRow(op[p].email)] \in {0, p}
            /\ locks' = [locks EXCEPT ![EmailRow(op[p].email)] = p]
            /\ pend' = [pend EXCEPT ![p] = NewUserWrites(db, @, op[p].email)]
            /\ mem' = [mem EXCEPT ![p] =
                         [usdAccount |-> NewAccount(UsdAccountOf(op[p].email),
                                                    UserIdOf(op[p].email), 0, "USD"),
                          eurAccount |-> NewAccount(EurAccountOf(op[p].email),
                                                    UserIdOf(op[p].email), 0, "EUR")]]
            /\ Goto(p, "r_usd")
    /\ UNCHANGED <<db, op, result, nOps>>

RegisterLockUSD(p) ==
    /\ pc[p] = "r_usd"
    /\ GetForUpdate(p, GetCashbookAccount("USD"), "usdCashbook", "r_fundUSD")

RegisterLockEUR(p) ==
    /\ pc[p] = "r_eur"
    /\ GetForUpdate(p, GetCashbookAccount("EUR"), "eurCashbook", "r_fundEUR")

\* The initial funding of one new account from its cashbook:
\* s.transfer.Execute(cashbook, account, initial), s.transfers.Insert,
\* s.accounts.Save(cashbook), s.accounts.Save(account).
RegisterFund(p, at, cashbook, account, initial, k, next) ==
    /\ pc[p] = at
    /\ Funded(p, cashbook, account,
              TransferWrites(db, pend[p], mem[p][cashbook], mem[p][account],
                             initial, <<op[p].id, k>>),
              next)
    /\ UNCHANGED <<db, locks, op, result, nOps>>

RegisterFundUSD(p) ==
    RegisterFund(p, "r_fundUSD", "usdCashbook", "usdAccount",
                 Money(InitialUSD, "USD"), 1, "r_eur")

RegisterFundEUR(p) ==
    RegisterFund(p, "r_fundEUR", "eurCashbook", "eurAccount",
                 Money(InitialEUR, "EUR"), 2, "checkLedger")

Next ==
    \E p \in Procs :
        \/ StartRegister(p)
        \/ RegisterExists(p)
        \/ RegisterSaveUser(p)
        \/ RegisterLockUSD(p)
        \/ RegisterFundUSD(p)
        \/ RegisterLockEUR(p)
        \/ RegisterFundEUR(p)
        \/ StartTransfer(p)
        \/ TransferLockFrom(p)
        \/ TransferLockTo(p)
        \/ TransferRun(p)
        \/ StartExchange(p)
        \/ ExchangeLockSource(p)
        \/ ExchangeLockTarget(p)
        \/ ExchangeLockUSD(p)
        \/ ExchangeLockEUR(p)
        \/ ExchangeRun(p)
        \/ CheckLedger(p)
        \/ CheckAccounts(p)
        \/ Commit(p)
        \/ CommitFail(p)
        \/ Rollback(p)
        \/ Return(p)
        \/ DeadlockDetected(p)

Spec == Init /\ [][Next]_vars

(***************************************************************************)
(* The committed state after registrations that ran one after another.     *)
(***************************************************************************)
\* Service.Register: GetForUpdate of the cashbook and the initial funding of
\* one new account, the writes afterwards.
FundWrites(d, w, cashbook, account, initial, id) ==
    TransferWrites(d, w, LoadAccount(View(d, w), cashbook), account, initial, id).w

\* Service.Register of email e as call n, run alone on the committed state d.
Registered(d, e, n) ==
    Publish(d, FundWrites(d, FundWrites(d, NewUserWrites(d, EmptyTx, e),
                                        GetCashbookAccount("USD"),
                                        NewAccount(UsdAccountOf(e), UserIdOf(e), 0, "USD"),
                                        Money(InitialUSD, "USD"), <<n, 1>>),
                          GetCashbookAccount("EUR"),
                          NewAccount(EurAccountOf(e), UserIdOf(e), 0, "EUR"),
                          Money(InitialEUR, "EUR"), <<n, 2>>))

RECURSIVE RegisteredUpTo(_)
RegisteredUpTo(n) ==
    IF n = 0 THEN SeededDB ELSE Registered(RegisteredUpTo(n - 1), n, -n)

\* Every email of the model has registered.
RegisteredDB == RegisteredUpTo(MaxUsers)

InitRegistered ==
    /\ db = RegisteredDB
    /\ locks = [r \in Rows |-> 0]
    /\ pc = [p \in Procs |-> "idle"]
    /\ op = [p \in Procs |-> NoOp]
    /\ mem = [p \in Procs |-> NoMem]
    /\ pend = [p \in Procs |-> EmptyTx]
    /\ err = [p \in Procs |-> NoError]
    /\ result = [p \in Procs |-> NoError]
    /\ nOps = 0

(***************************************************************************)
(* A batch of concurrent transfers: every worker makes the same Transfer   *)
(* call once (TestTransfer_ConcurrentTransfers).                           *)
(***************************************************************************)
BatchAmounts == {SubCent, 100 * Unit, 500 * Unit}

StartBatchTransfer(p) ==
    \E from \in UserAccounts, to \in UserAccounts, a \in BatchAmounts :
        /\ from # to
        /\ db.accounts[from].currency = db.accounts[to].currency
        /\ \A q \in Procs :
              op[q] # NoOp =>
                  op[q].from = from /\ op[q].to = to /\ op[q].money.amount = a
        /\ Begin(p, [kind |-> "transfer", from |-> from, to |-> to,
                     money |-> Money(a, db.accounts[from].currency)], "t_from")

NextBatch ==
    \E p \in Procs :
        \/ StartBatchTransfer(p)
        \/ TransferLockFrom(p)
        \/ TransferLockTo(p)
        \/ TransferRun(p)
        \/ CheckLedger(p)
        \/ CheckAccounts(p)
        \/ Commit(p)
        \/ Rollback(p)

SpecBatch == InitRegistered /\ [][NextBatch]_vars

(***************************************************************************)
(* One caller making any Transfer and Exchange calls one after another on  *)
(* the registered state: every account as either side, accounts that do    *)
(* not exist, amounts of either currency that are negative, zero, a       *)
(* hundredth of a cent, a cent and a half, within and beyond the balances. *)
(***************************************************************************)
Caller == CHOOSE p \in Procs : \A q \in Procs : p <= q
OpsSources == {UsdAccountOf(1), EurAccountOf(1), CashbookUSD, GhostAccount}
OpsTargets == AllAccountIDs \cup {GhostAccount}
OpsAmounts == {-Unit, 0, LedgerStep, SubCent + Cent, 600 * Unit, 2000 * Unit}

StartAnyTransfer(p) ==
    \E from \in OpsSources, to \in OpsTargets, a \in OpsAmounts, c \in Currency :
        Begin(p, [kind |-> "transfer", from |-> from, to |-> to,
                  money |-> Money(a, c)], "t_from")

StartAnyExchange(p) ==
    \E src \in OpsSources, tgt \in OpsTargets, a \in OpsAmounts, c \in Currency :
        Begin(p, [kind |-> "exchange", sourceAccount |-> src, targetAccount |-> tgt,
                  sourceAmount |-> Money(a, c)], "x_source")

NextOps ==
    \E p \in {Caller} :
        \/ StartAnyTransfer(p)
        \/ TransferLockFrom(p)
        \/ TransferLockTo(p)
        \/ TransferRun(p)
        \/ StartAnyExchange(p)
        \/ ExchangeLockSource(p)
        \/ ExchangeLockTarget(p)
        \/ ExchangeLockUSD(p)
        \/ ExchangeLockEUR(p)
        \/ ExchangeRun(p)
        \/ CheckLedger(p)
        \/ CheckAccounts(p)
        \/ Commit(p)
        \/ CommitFail(p)
        \/ Rollback(p)
        \/ Return(p)

SpecOps == InitRegistered /\ [][NextOps]_vars

(***************************************************************************)
(* Rates and conversions: ExchangeRate.Convert on any rate and amount, the *)
(* rate provider built with any rate and asked for any pair of currency    *)
(* names, and exchanges between the two accounts of one user.  Rates are   *)
(* kept with six decimals and go up to 2; for such rates the quotient that *)
(* decimal.Div cuts at 16 digits rounds to the same six decimals as the    *)
(* exact quotient.                                                         *)
(***************************************************************************)
ConvertRates == {UsdToEurRate, InverseRate(UsdToEurRate), RateScale, RateScale \div 2, 1}
ConvertAmounts ==
    {-(12 * Cent + SubCent), -Cent, 0, SubCent, Cent, 12 * Cent + SubCent,
     92 * Unit, 100 * Unit, 123 * Unit + 45 * Cent}
ProviderRates ==
    {UsdToEurRate, RateScale, RateScale \div 2, 3 * (RateScale \div 4),
     11 * (RateScale \div 10), 3 * (RateScale \div 2), 2 * RateScale}
CurrencyNames == Currency \cup {"GBP"}
RateExchangeAmounts == {92 * Unit, 100 * Unit, 123 * Unit + 45 * Cent, 2000 * Unit}

\* A call that opens no transaction.
Call(p, cmd, first) ==
    /\ pc[p] = "idle"
    /\ nOps < MaxOps
    /\ nOps' = nOps + 1
    /\ op' = [op EXCEPT ![p] = cmd @@ [id |-> nOps + 1]]
    /\ pc' = [pc EXCEPT ![p] = first]
    /\ mem' = [mem EXCEPT ![p] = NoMem]
    /\ err' = [err EXCEPT ![p] = NoError]
    /\ UNCHANGED <<db, locks, pend, result>>

\* The call returns value out or the error e.
Answer(p, e, out) ==
    /\ result' = [result EXCEPT ![p] = e]
    /\ mem' = [mem EXCEPT ![p] = out]
    /\ pc' = [pc EXCEPT ![p] = "done"]
    /\ UNCHANGED <<db, locks, op, pend, err, nOps>>

\* The call returns what the function returned: its value, or its error.
Answered(p, r) ==
    Answer(p, r.err, IF r.err = NoError THEN [value |-> r] ELSE NoMem)

\* NewExchangeRate(from, to, rate) of two different currencies and a positive
\* rate, then Convert of a Money of either currency.
StartConvert(p) ==
    \E from \in Currency, r \in ConvertRates, a \in ConvertAmounts, c \in Currency :
      \E to \in Currency \ {from} :
        Call(p, [kind |-> "convert", rate |-> NewExchangeRate(from, to, r),
                 money |-> Money(a, c)], "c_exec")

ConvertRun(p) ==
    /\ pc[p] = "c_exec"
    /\ Answered(p, Convert(op[p].rate, op[p].money))

\* NewFixedExchangeRateProvider(usdToEurRate), then GetRate(from, to).
StartGetRate(p) ==
    \E r \in ProviderRates, from \in CurrencyNames, to \in CurrencyNames :
        Call(p, [kind |-> "getRate", usdToEurRate |-> r, from |-> from, to |-> to],
             "g_exec")

GetRateRun(p) ==
    /\ pc[p] = "g_exec"
    /\ Answered(p, ProviderGetRate(op[p].usdToEurRate, op[p].from, op[p].to))

\* Service.Exchange between the USD and the EUR account of the first user.
StartRateExchange(p) ==
    \E c \in Currency, a \in RateExchangeAmounts :
        Begin(p, [kind |-> "exchange",
                  sourceAccount |-> IF c = "USD" THEN UsdAccountOf(1) ELSE EurAccountOf(1),
                  targetAccount |-> IF c = "USD" THEN EurAccountOf(1) ELSE UsdAccountOf(1),
                  sourceAmount |-> Money(a, c)], "x_source")

NextRates ==
    \E p \in {Caller} :
        \/ StartConvert(p)
        \/ ConvertRun(p)
        \/ StartGetRate(p)
        \/ GetRateRun(p)
        \/ StartRateExchange(p)
        \/ ExchangeLockSource(p)
        \/ ExchangeLockTarget(p)
        \/ ExchangeLockUSD(p)
        \/ ExchangeLockEUR(p)
        \/ ExchangeRun(p)
        \/ CheckLedger(p)
        \/ CheckAccounts(p)
        \/ Commit(p)
        \/ CommitFail(p)
        \/ Rollback(p)
        \/ Return(p)

SpecRates == InitRegistered /\ [][NextRates]_vars

(***************************************************************************)
(* The transaction manager under storage faults: one caller whose fn is    *)
(* the body of Service.Transfer, which returns nil, fails before any write *)
(* or fails after its writes; begin, commit and rollback may each fail.    *)
(***************************************************************************)
TrmTargets == {UsdAccountOf(1), UsdAccountOf(2), GhostAccount}
TrmAmounts == {100 * Unit, 600 * Unit, 2000 * Unit}

StartTrmTransfer(p) ==
    \E to \in TrmTargets, a \in TrmAmounts :
        Begin(p, [kind |-> "transfer", from |-> UsdAccountOf(1), to |-> to,
                  money |-> Money(a, "USD")], "t_from")

FailTrmTransfer(p) ==
    \E to \in TrmTargets, a \in TrmAmounts :
        BeginFail(p, [kind |-> "transfer", from |-> UsdAccountOf(1), to |-> to,
                      money |-> Money(a, "USD")])

NextTrm ==
    \E p \in {Caller} :
        \/ StartTrmTransfer(p)
        \/ FailTrmTransfer(p)
        \/ TransferLockFrom(p)
        \/ TransferLockTo(p)
        \/ TransferRun(p)
        \/ CheckLedger(p)
        \/ CheckAccounts(p)
        \/ Commit(p)
        \/ CommitFail(p)
        \/ CommitFailRollbackFail(p)
        \/ Rollback(p)
        \/ RollbackFail(p)
        \/ Return(p)

SpecTrm == InitRegistered /\ [][NextTrm]_vars

(***************************************************************************)
(* A nested Do: the fn of an outer Do (the body of Service.Transfer) calls *)
(* Do again with the context it was given, in which the outer transaction  *)
(* is bound.  DoTx asks the factory for a transaction on every call, and   *)
(* the pgx factory begins one on the pool, so the inner fn runs on a       *)
(* second storage transaction, held here by the worker Nested.             *)
(***************************************************************************)
Nested == CHOOSE q \in Procs : q # Caller
NestedAmounts == {100 * Unit, 2000 * Unit}
ErrFromTransaction == Err("ErrFromTransaction")

\* The outer Do: a transfer between the USD accounts of the two users whose fn,
\* after its writes, calls Do again and may fail after that call returned nil.
StartOuterTransfer(p) ==
    \E a \in NestedAmounts, f \in BOOLEAN :
        Begin(p, [kind |-> "transfer", from |-> UsdAccountOf(1), to |-> UsdAccountOf(2),
                  money |-> Money(a, "USD"), failsAfter |-> f], "t_from")

\* DoTx entered with the outer transaction bound in ctx: trm.factory(ctx, opts)
\* begins a transaction of its own and withTx binds it for the inner fn, a
\* transfer between the two users' accounts in one currency.
NestedBegin(p, q) ==
    /\ pc[p] = "checkLedger"
    /\ pc[q] = "idle"
    /\ nOps < MaxOps
    /\ \E c \in Currency, a \in NestedAmounts :
           op' = [op EXCEPT ![q] =
                     [kind |-> "transfer",
                      from |-> IF c = "USD" THEN UsdAccountOf(1) ELSE EurAccountOf(1),
                      to |-> IF c = "USD" THEN UsdAccountOf(2) ELSE EurAccountOf(2),
                      money |-> Money(a, c), id |-> nOps + 1]]
    /\ nOps' = nOps + 1
    /\ pc' = [pc EXCEPT ![p] = "nested", ![q] = "t_from"]
    /\ mem' = [mem EXCEPT ![q] = NoMem]
    /\ pend' = [pend EXCEPT ![q] = EmptyTx]
    /\ err' = [err EXCEPT ![q] = NoError]
    /\ UNCHANGED <<db, locks, result>>

\* The inner Do returned: the outer fn returns its error, or its own error, or
\* goes on to the consistency checks.
NestedReturn(p, q) ==
    /\ pc[p] = "nested"
    /\ pc[q] = "done"
    /\ IF result[q] # NoError THEN Fail(p, result[q])
       ELSE IF op[p].failsAfter THEN Fail(p, ErrFromTransaction)
       ELSE Goto(p, "checkLedger")
    /\ UNCHANGED <<db, locks, op, mem, pend, result, nOps>>

\* The outer Do returned to its caller.
ReturnOuter(p, q) ==
    /\ pc[p] = "done"
    /\ pc[q] \in {"idle", "done"}
    /\ pc' = [pc EXCEPT ![p] = "idle", ![q] = "idle"]
    /\ op' = [op EXCEPT ![p] = NoOp, ![q] = NoOp]
    /\ result' = [result EXCEPT ![p] = NoError, ![q] = NoError]
    /\ err' = [err EXCEPT ![p] = NoError, ![q] = NoError]
    /\ UNCHANGED <<db, locks, mem, pend, nOps>>

\* trm.Injector: the transaction bound in a context, Background when none is.
Background == 0

\* An injector that finds a transaction in every context.
HasContextTransactionAlways(tx) == TRUE

\* Injector.HasContextTransaction
HasContextTransaction(tx) == tx # Background

InsertOutsideTransaction == Err("InsertOutsideTransaction")

\* TransfersRepository.Insert called with a context whose transaction is tx and
\* whose writes so far are w: the guard, then the inserts.
TransfersRepositoryInsert(tx, w, td) ==
    IF ~HasContextTransaction(tx) THEN [err |-> InsertOutsideTransaction, w |-> w]
    ELSE TransfersInsert(w, td)

\* ExchangesRepository.Insert, the same way.
ExchangesRepositoryInsert(tx, w, ed) ==
    IF ~HasContextTransaction(tx) THEN [err |-> InsertOutsideTransaction, w |-> w]
    ELSE ExchangesInsert(w, ed)

\* The details handed to a repository by a caller that holds no transaction.
DetachedTransfers ==
    {NewTransferDetails(<<0, a>>, UsdAccountOf(1), UsdAccountOf(2), Money(a, "USD")) :
        a \in NestedAmounts}
DetachedExchanges ==
    {NewExchangeDetails(<<0, a>>, UsdAccountOf(1), EurAccountOf(1), Money(a, "USD"),
                        CalculateExchangeAmount(Money(a, "USD"),
                                                GetRate("USD", "EUR")).money).details :
        a \in NestedAmounts}

\* A repository call made on ctx without a transaction: what Injector.DB(ctx)
\* returns is then the pool, where every statement that runs is stored at once.
Detached(p, repository, r) ==
    /\ pc[p] = "idle"
    /\ nOps < MaxOps
    /\ nOps' = nOps + 1
    /\ op' = [op EXCEPT ![p] = [kind |-> "insert", repository |-> repository,
                                id |-> nOps + 1]]
    /\ db' = Publish(db, r.w)
    /\ result' = [result EXCEPT ![p] = r.err]
    /\ pc' = [pc EXCEPT ![p] = "done"]
    /\ UNCHANGED <<locks, mem, pend, err>>

TransfersInsertDetached(p) ==
    \E td \in DetachedTransfers :
        Detached(p, "transfers", TransfersRepositoryInsert(Background, EmptyTx, td))

ExchangesInsertDetached(p) ==
    \E ed \in DetachedExchanges :
        Detached(p, "exchanges", ExchangesRepositoryInsert(Background, EmptyTx, ed))

NextNested ==
    \/ StartOuterTransfer(Caller)
    \/ NestedBegin(Caller, Nested)
    \/ NestedReturn(Caller, Nested)
    \/ ReturnOuter(Caller, Nested)
    \/ TransfersInsertDetached(Caller)
    \/ ExchangesInsertDetached(Caller)
    \/ \E p \in {Caller, Nested} :
        \/ TransferLockFrom(p)
        \/ TransferLockTo(p)
        \/ TransferRun(p)
        \/ CheckLedger(p)
        \/ CheckAccounts(p)
        \/ Commit(p)
        \/ Rollback(p)

SpecNested == InitRegistered /\ [][NextNested]_vars

(***************************************************************************)
(* Reads made outside a unit of work (Reconcile, CheckLedgerBalanceBy-     *)
(* Currency, CheckAllAccountBalances, LedgerRepository.GetAccountBalance)  *)
(* by one caller while the other workers run Transfers and Exchanges, on   *)
(* the clean system of the migrations and on the registered one.  Each     *)
(* query is one statement on the pool.                                     *)
(***************************************************************************)
\* A statement run on the pool with the transactions open having written
\* open: it reads the rows of the open transactions as well.
PoolViewDirty(d, open) == View(d, open[Nested])

\* Injector.DB(ctx) without a transaction in ctx: a statement on the pool reads
\* the committed tables whatever the open transactions have written.
PoolView(d, open) == d

ReadAmounts == {SubCent, 100 * Unit}

NewReconciliationReport ==
    [isConsistent |-> TRUE, ledgerBalances |-> {}, accountMismatches |-> {},
     totalAccountsChecked |-> 0]

\* Reconcile: one LedgerCurrencyStatus per currency of totals.
ReconcileLedgerBalances(report, totals) ==
    [report EXCEPT
       !.ledgerBalances =
           {[currency |-> c, totalSum |-> totals[c], isBalanced |-> totals[c] = 0] :
               c \in DOMAIN totals},
       !.isConsistent = @ /\ \A c \in DOMAIN totals : totals[c] = 0]

\* A Reconcile that lists the mismatches and leaves IsConsistent as it was.
ReconcileAccountMismatchesListed(report, mismatches) ==
    [report EXCEPT
       !.accountMismatches =
           {[accountID |-> m.accountID, currency |-> m.currency,
             accountBalance |-> m.accountBalance, ledgerBalance |-> m.ledgerBalance,
             difference |-> m.accountBalance - m.ledgerBalance] : m \in mismatches}]

\* Reconcile: one AccountMismatch per mismatch, each clearing IsConsistent.
ReconcileAccountMismatches(report, mismatches) ==
    [report EXCEPT
       !.accountMismatches =
           {[accountID |-> m.accountID, currency |-> m.currency,
             accountBalance |-> m.accountBalance, ledgerBalance |-> m.ledgerBalance,
             difference |-> m.accountBalance - m.ledgerBalance] : m \in mismatches},
       !.isConsistent = @ /\ mismatches = {}]

\* AccountsRepository.Count
Count(v) == Cardinality(DOMAIN v.accounts)

StartReconcile(p) == Call(p, [kind |-> "reconcile"], "rc_totals")

\* A query of Reconcile answered: the report so far, and the next query.
Reported(p, report, next) ==
    /\ mem' = [mem EXCEPT ![p] = [report |-> report]]
    /\ pc' = [pc EXCEPT ![p] = next]
    /\ UNCHANGED <<db, locks, op, pend, err, result, nOps>>

\* s.ledger.GetTotalBalanceByCurrency(ctx)
ReconcileTotals(p) ==
    /\ pc[p] = "rc_totals"
    /\ Reported(p, ReconcileLedgerBalances(NewReconciliationReport,
                       GetTotalBalanceByCurrency(PoolView(db, pend))),
                "rc_mismatches")

\* s.ledger.GetAccountBalanceMismatches(ctx)
ReconcileMismatches(p) ==
    /\ pc[p] = "rc_mismatches"
    /\ Reported(p, ReconcileAccountMismatches(mem[p].report,
                       GetAccountBalanceMismatches(PoolView(db, pend))),
                "rc_count")

\* s.accounts.Count(ctx), and the report is returned.
ReconcileCount(p) ==
    /\ pc[p] = "rc_count"
    /\ Answer(p, NoError,
              [report |-> [mem[p].report EXCEPT
                             !.totalAccountsChecked = Count(PoolView(db, pend))]])

\* Service.CheckLedgerBalanceByCurrency outside a unit of work.
StartCheckLedger(p) == Call(p, [kind |-> "checkLedger"], "cl_exec")

CheckLedgerRun(p) ==
    /\ pc[p] = "cl_exec"
    /\ LET errs == LedgerBalanceErrors(PoolView(db, pend)) IN
       IF errs = {} THEN Answer(p, NoError, NoMem)
       ELSE \E e \in errs : Answer(p, e, NoMem)

\* Service.CheckAllAccountBalances: the first row of the mismatch query, which
\* has no ORDER BY.
StartCheckAllAccounts(p) == Call(p, [kind |-> "checkAllAccounts"], "ca_exec")

CheckAllAccountsRun(p) ==
    /\ pc[p] = "ca_exec"
    /\ LET mismatches == GetAccountBalanceMismatches(PoolView(db, pend)) IN
       IF mismatches = {} THEN Answer(p, NoError, NoMem)
       ELSE \E m \in mismatches :
               Answer(p, AccountBalanceMismatchError(m.accountID, m.accountBalance,
                                                     m.ledgerBalance), NoMem)

\* LedgerRepository.GetAccountBalance of a user's USD account.
StartGetAccountBalance(p) ==
    \E e \in Emails : Call(p, [kind |-> "getAccountBalance", account |-> UsdAccountOf(e)],
                           "gb_exec")

GetAccountBalanceRun(p) ==
    /\ pc[p] = "gb_exec"
    /\ Answer(p, NoError,
              [value |-> GetAccountBalance(PoolView(db, pend), op[p].account)])

\* The writers: transfers between the users' USD accounts, exchanges of the
\* first user's USD.
StartReadTransfer(p) ==
    \E a \in ReadAmounts :
        Begin(p, [kind |-> "transfer", from |-> UsdAccountOf(1), to |-> UsdAccountOf(2),
                  money |-> Money(a, "USD")], "t_from")

StartReadExchange(p) ==
    \E a \in ReadAmounts :
        Begin(p, [kind |-> "exchange", sourceAccount |-> UsdAccountOf(1),
                  targetAccount |-> EurAccountOf(1),
                  sourceAmount |-> Money(a, "USD")], "x_source")

NextRead ==
    \/ \E p \in {Caller} :
        \/ StartReconcile(p)
        \/ ReconcileTotals(p)
        \/ ReconcileMismatches(p)
        \/ ReconcileCount(p)
        \/ StartCheckLedger(p)
        \/ CheckLedgerRun(p)
        \/ StartCheckAllAccounts(p)
        \/ CheckAllAccountsRun(p)
        \/ StartGetAccountBalance(p)
        \/ GetAccountBalanceRun(p)
    \/ \E p \in Procs \ {Caller} :
        \/ StartReadTransfer(p)
        \/ TransferLockFrom(p)
        \/ TransferLockTo(p)
        \/ TransferRun(p)
        \/ StartReadExchange(p)
        \/ ExchangeLockSource(p)
        \/ ExchangeLockTarget(p)
        \/ ExchangeLockUSD(p)
        \/ ExchangeLockEUR(p)
        \/ ExchangeRun(p)
        \/ CheckLedger(p)
        \/ CheckAccounts(p)
        \/ Commit(p)
        \/ Rollback(p)
    \/ \E p \in Procs : Return(p)

\* The clean system, or the system after the registrations.
InitRead == Init \/ InitRegistered

SpecRead == InitRead /\ [][NextRead]_vars

(***************************************************************************)
(* Cancellation of the request context during a Transfer or an Exchange.   *)
(* Every storage call of the unit of work takes the request context, and   *)
(* the factory binds tx.Commit and tx.Rollback to it as well: a statement, *)
(* commit or rollback started on a cancelled context returns its error and *)
(* ends the connection, whose open transaction the storage then aborts; a  *)
(* cancellation that arrives while the COMMIT is with the storage stops    *)
(* the wait for its answer and not the COMMIT.                             *)
(***************************************************************************)
CancelAmounts == {100 * Unit, 2000 * Unit}
ContextCanceled == Err("ContextCanceled")

StartCancellableTransfer(p) ==
    \E a \in CancelAmounts :
        Begin(p, [kind |-> "transfer", from |-> UsdAccountOf(1), to |-> UsdAccountOf(2),
                  money |-> Money(a, "USD"), cancelled |-> FALSE], "t_from")

StartCancellableExchange(p) ==
    \E a \in CancelAmounts :
        Begin(p, [kind |-> "exchange", sourceAccount |-> UsdAccountOf(1),
                  targetAccount |-> EurAccountOf(1),
                  sourceAmount |-> Money(a, "USD"), cancelled |-> FALSE], "x_source")

\* The positions of a worker inside fn.  Each is the start of a storage call,
\* but for t_exec and x_exec, where the in-memory Execute (and GetRate before
\* it in an exchange) runs before the Insert.
InFn == {"t_from", "t_to", "t_exec", "x_source", "x_target", "x_usd", "x_eur",
         "x_exec", "checkLedger", "checkAccounts"}

\* ctx of the call of p is not done.
Alive(p) == "cancelled" \in DOMAIN op[p] /\ ~op[p].cancelled

\* The request context is cancelled while the unit of work is between begin
\* and the call of tx.Commit or of tx.Rollback.
Cancel(p) ==
    /\ pc[p] \in InFn \cup {"commit", "rollback"}
    /\ Alive(p)
    /\ op' = [op EXCEPT ![p] = [@ EXCEPT !.cancelled = TRUE]]
    /\ UNCHANGED <<db, locks, pc, mem, pend, err, result, nOps>>

\* The error of s.exchange.Execute on the four locked accounts m, or the
\* error of the GetRate before it.
ExchangeExecuteError(m, sourceAmount, rate, id) ==
    IF rate.err # NoError THEN rate.err
    ELSE ExchangeExecute(m["sourceAccount"], m["targetAccount"],
                         m["usdCashbookAccount"], m["eurCashbookAccount"],
                         sourceAmount, rate, id).err

\* What the in-memory part of fn at the position of p returns: the error of
\* s.transfer.Execute at t_exec, of GetRate or s.exchange.Execute at x_exec,
\* nil at every other position.  None of them looks at the context.
ExecuteError(p) ==
    IF pc[p] = "t_exec"
    THEN TransferExecute(mem[p]["from"], mem[p]["to"], op[p].money, <<op[p].id, 1>>).err
    ELSE IF pc[p] = "x_exec"
    THEN ExchangeExecuteError(mem[p], op[p].sourceAmount,
                              GetRate(op[p].sourceAmount.currency,
                                      mem[p]["targetAccount"].currency),
                              <<op[p].id, 1>>)
    ELSE NoError

\* fn returns the error e of its in-memory part; when there is none, the
\* storage call that follows returns the error of the cancelled context.
OnCancelledContext(e) == IF e # NoError THEN e ELSE ContextCanceled

\* fn on the cancelled context: an error of its in-memory part is returned
\* as it is; otherwise the next storage call returns the context's error.
CancelledStatement(p) ==
    /\ pc[p] \in InFn
    /\ ~Alive(p)
    /\ Fail(p, OnCancelledContext(ExecuteError(p)))
    /\ UNCHANGED <<db, locks, op, mem, pend, result, nOps>>

\* An injectContext that hands tx.Commit a context of its own.
CommitCancelledDetached(p) ==
    /\ ~Alive(p)
    /\ Commit(p)

\* tx.Commit() on the cancelled context: nothing is sent, the transaction is
\* closed, the tx.Rollback() that follows fails on it.
CommitCancelled(p) ==
    /\ ~Alive(p)
    /\ CommitFailRollbackFail(p)

\* The context is cancelled while tx.Commit() waits for the storage, which has
\* the COMMIT: the writes are published, tx.Commit() returns the context's
\* error and the tx.Rollback() that follows fails on the closed transaction.
CommitInterrupted(p) ==
    /\ pc[p] = "commit"
    /\ Alive(p)
    /\ db' = Publish(db, pend[p])
    /\ op' = [op EXCEPT ![p] = [@ EXCEPT !.cancelled = TRUE]]
    /\ locks' = ReleaseLocks(p)
    /\ pend' = [pend EXCEPT ![p] = EmptyTx]
    /\ mem' = [mem EXCEPT ![p] = NoMem]
    /\ result' = [result EXCEPT ![p] = Err("RollbackFailed")]
    /\ pc' = [pc EXCEPT ![p] = "done"]
    /\ UNCHANGED <<err, nOps>>

NextCancel ==
    \E p \in {Caller} :
        \/ StartCancellableTransfer(p)
        \/ StartCancellableExchange(p)
        \/ Cancel(p)
        \/ CancelledStatement(p)
        \/ TransferLockFrom(p) /\ Alive(p)
        \/ TransferLockTo(p) /\ Alive(p)
        \/ TransferRun(p) /\ Alive(p)
        \/ ExchangeLockSource(p) /\ Alive(p)
        \/ ExchangeLockTarget(p) /\ Alive(p)
        \/ ExchangeLockUSD(p) /\ Alive(p)
        \/ ExchangeLockEUR(p) /\ Alive(p)
        \/ ExchangeRun(p) /\ Alive(p)
        \/ CheckLedger(p) /\ Alive(p)
        \/ CheckAccounts(p) /\ Alive(p)
        \/ Commit(p) /\ Alive(p)
        \/ CommitCancelled(p)
        \/ CommitInterrupted(p)
        \/ Rollback(p) /\ Alive(p)
        \/ RollbackFail(p) /\ ~Alive(p)
        \/ Return(p)

SpecCancel == InitRegistered /\ [][NextCancel]_vars

(***************************************************************************)
(* A batch of concurrent exchanges: every worker makes the same Exchange   *)
(* call once, from the first user's USD account to the same user's EUR     *)
(* account (TestExchange_ConcurrentExchanges).                             *)
(***************************************************************************)
BatchExchangeAmounts == {SubCent + Cent, 100 * Unit, 500 * Unit, 600 * Unit}

StartBatchExchange(p) ==
    \E a \in BatchExchangeAmounts :
        /\ \A q \in Procs : op[q] # NoOp => op[q].sourceAmount.amount = a
        /\ Begin(p, [kind |-> "exchange", sourceAccount |-> UsdAccountOf(1),
                     targetAccount |-> EurAccountOf(1),
                     sourceAmount |-> Money(a, "USD")], "x_source")

NextExchangeBatch ==
    \E p \in Procs :
        \/ StartBatchExchange(p)
        \/ ExchangeLockSource(p)
        \/ ExchangeLockTarget(p)
        \/ ExchangeLockUSD(p)
        \/ ExchangeLockEUR(p)
        \/ ExchangeRun(p)
        \/ CheckLedger(p)
        \/ CheckAccounts(p)
        \/ Commit(p)
        \/ Rollback(p)

SpecExchangeBatch == InitRegistered /\ [][NextExchangeBatch]_vars

(***************************************************************************)
(* Two concurrent transfers over disjoint accounts: one worker transfers   *)
(* between the users' USD accounts, another between their EUR accounts,    *)
(* each once and in either direction.                                      *)
(***************************************************************************)
DisjointAmounts == {SubCent, 100 * Unit, 2000 * Unit}

StartDisjointTransfer(p, c) ==
    \E a \in DisjointAmounts, e \in Emails, f \in Emails :
        /\ e # f
        /\ Begin(p, [kind |-> "transfer",
                     from |-> IF c = "USD" THEN UsdAccountOf(e) ELSE EurAccountOf(e),
                     to |-> IF c = "USD" THEN UsdAccountOf(f) ELSE EurAccountOf(f),
                     money |-> Money(a, c)], "t_from")

NextDisjoint ==
    \/ StartDisjointTransfer(Caller, "USD")
    \/ StartDisjointTransfer(Nested, "EUR")
    \/ \E p \in {Caller, Nested} :
        \/ TransferLockFrom(p)
        \/ TransferLockTo(p)
        \/ TransferRun(p)
        \/ CheckLedger(p)
        \/ CheckAccounts(p)
        \/ Commit(p)
        \/ Rollback(p)

SpecDisjoint == InitRegistered /\ [][NextDisjoint]_vars

\* The checks of Service.Transfer on the writes r of the call, run alone on the
\* committed state d, and the commit or the rollback that follows.
TransferChecked(d, r) ==
    IF r.err # NoError THEN d
    ELSE IF LedgerBalanceErrors(View(d, r.w)) # {} THEN d
    ELSE IF \E n \in {"from", "to"} :
               CheckAccountLedgerConsistency(View(d, r.w), r.mem[n]) # NoError
    THEN d
    ELSE Publish(d, r.w)

\* Service.Transfer(cmd) run alone on the committed state d: the committed
\* state it leaves.
TransferAlone(d, cmd) ==
    TransferChecked(d, TransferWrites(d, EmptyTx, LoadAccount(d, cmd.from),
                                      LoadAccount(d, cmd.to), cmd.money,
                                      <<cmd.id, 1>>))

(***************************************************************************)
(* Round trips: one caller exchanges an amount between the two accounts of *)
(* the first user, then exchanges what an earlier exchange credited back   *)
(* into the currency it came from; a transfer out of the cashbook may fund *)
(* the account first.                                                      *)
(***************************************************************************)
RoundTripAmounts == {6 * Cent, 12 * Cent, 100 * Unit, 22233 * Unit + 31 * Cent}
FundingAmounts == {21233 * Unit + 31 * Cent}

\* Service.Transfer out of the USD cashbook, as Register's grant does, into
\* the USD account of the first user: the account then holds what the users
\* of a larger system could have transferred to it.
StartFunding(p) ==
    \E a \in FundingAmounts :
        Begin(p, [kind |-> "transfer", from |-> CashbookUSD, to |-> UsdAccountOf(1),
                  money |-> Money(a, "USD")], "t_from")

\* Service.Exchange of a out of the user's account of currency c.
StartExchangeOut(p) ==
    \E c \in Currency, a \in RoundTripAmounts :
        Begin(p, [kind |-> "exchange",
                  sourceAccount |-> IF c = "USD" THEN UsdAccountOf(1) ELSE EurAccountOf(1),
                  targetAccount |-> IF c = "USD" THEN EurAccountOf(1) ELSE UsdAccountOf(1),
                  sourceAmount |-> Money(a, c)], "x_source")

\* Service.Exchange of the whole target amount of a committed exchange, from
\* its target account back to its source account; original is what that
\* exchange took from the source account.
StartExchangeBack(p) ==
    \E ed \in db.exchangeDetails :
        Begin(p, [kind |-> "exchange",
                  sourceAccount |-> ed.targetAccount,
                  targetAccount |-> ed.sourceAccount,
                  sourceAmount |-> Money(ed.targetAmount, ed.targetCurrency),
                  original |-> Money(ed.sourceAmount, ed.sourceCurrency)], "x_source")

NextRoundTrip ==
    \E p \in {Caller} :
        \/ StartFunding(p)
        \/ TransferLockFrom(p)
        \/ TransferLockTo(p)
        \/ TransferRun(p)
        \/ StartExchangeOut(p)
        \/ StartExchangeBack(p)
        \/ ExchangeLockSource(p)
        \/ ExchangeLockTarget(p)
        \/ ExchangeLockUSD(p)
        \/ ExchangeLockEUR(p)
        \/ ExchangeRun(p)
        \/ CheckLedger(p)
        \/ CheckAccounts(p)
        \/ Commit(p)
        \/ Rollback(p)
        \/ Return(p)

SpecRoundTrip == InitRegistered /\ [][NextRoundTrip]_vars

(***************************************************************************)
(* The preview: one caller asks Service.CalculateExchangeAmount or runs    *)
(* Service.Exchange between the two accounts of the first user.            *)
(***************************************************************************)
PreviewAmounts == {0, SubCent + Cent, 6 * Cent, 100 * Unit, 123 * Unit + 45 * Cent}

\* A preview that cuts the converted amount after two decimals.
ServiceCalculateExchangeAmountTruncated(sourceAmount, targetCurrency) ==
    LET exchangeRate == GetRate(sourceAmount.currency, targetCurrency)
    IN  IF exchangeRate.err # NoError THEN [err |-> exchangeRate.err]
        ELSE LET targetAmount == ConvertTruncated(exchangeRate, sourceAmount)
             IN  IF targetAmount.err # NoError THEN [err |-> targetAmount.err]
                 ELSE [err |-> NoError, sourceAmount |-> sourceAmount,
                       targetAmount |-> targetAmount.money, exchangeRate |-> exchangeRate]

\* Service.CalculateExchangeAmount: GetRate, then domain.CalculateExchangeAmount.
ServiceCalculateExchangeAmount(sourceAmount, targetCurrency) ==
    LET exchangeRate == GetRate(sourceAmount.currency, targetCurrency)
    IN  IF exchangeRate.err # NoError THEN [err |-> exchangeRate.err]
        ELSE LET targetAmount == CalculateExchangeAmount(sourceAmount, exchangeRate)
             IN  IF targetAmount.err # NoError THEN [err |-> targetAmount.err]
                 ELSE [err |-> NoError, sourceAmount |-> sourceAmount,
                       targetAmount |-> targetAmount.money, exchangeRate |-> exchangeRate]

StartPreview(p) ==
    \E a \in PreviewAmounts, c \in Currency, t \in Currency :
        Call(p, [kind |-> "preview", sourceAmount |-> Money(a, c),
                 targetCurrency |-> t], "p_exec")

PreviewRun(p) ==
    /\ pc[p] = "p_exec"
    /\ Answered(p, ServiceCalculateExchangeAmount(op[p].sourceAmount, op[p].targetCurrency))

StartPreviewedExchange(p) ==
    \E c \in Currency, a \in PreviewAmounts :
        Begin(p, [kind |-> "exchange",
                  sourceAccount |-> IF c = "USD" THEN UsdAccountOf(1) ELSE EurAccountOf(1),
                  targetAccount |-> IF c = "USD" THEN EurAccountOf(1) ELSE UsdAccountOf(1),
                  sourceAmount |-> Money(a, c)], "x_source")

NextPreview ==
    \E p \in {Caller} :
        \/ StartPreview(p)
        \/ PreviewRun(p)
        \/ StartPreviewedExchange(p)
        \/ ExchangeLockSource(p)
        \/ ExchangeLockTarget(p)
        \/ ExchangeLockUSD(p)
        \/ ExchangeLockEUR(p)
        \/ ExchangeRun(p)
        \/ CheckLedger(p)
        \/ CheckAccounts(p)
        \/ Commit(p)
        \/ Rollback(p)
        \/ Return(p)

SpecPreview == InitRegistered /\ [][NextPreview]_vars

(***************************************************************************)
(* Properties of the committed state under any interleaving (Spec).        *)
(***************************************************************************)
CommittedTransfers == {t \in db.transactions : t.type = "transfer"}
CommittedExchanges == {t \in db.transactions : t.type = "exchange"}
UserRows == {id \in DOMAIN db.accounts : db.accounts[id].userID # CashbookUserID}

\* C1: in every committed state reachable from the seeded state by any
\* interleaving of Register, Transfer and Exchange, the amounts of the
\* committed ledger records of each currency sum to zero.
LedgerZeroSumByCurrency ==
    \A c \in Currency : SumAmounts({r \in db.ledger : r.currency = c}) = 0

\* A committed state holding the ledger rows of a registration, of a transfer
\* and of an exchange.
LedgerZeroSumWitness ==
    /\ db.users # {}
    /\ \E t \in CommittedTransfers : t.account \in UserRows
    /\ CommittedExchanges # {}
    /\ \A c \in Currency : {r \in db.ledger : r.currency = c /\ r.amount < 0} # {}

\* C2: after every commit, the balance stored in the accounts table equals,
\* for every account, the sum of the amounts of its committed ledger records.
StoredBalanceEqualsLedger ==
    \A id \in DOMAIN db.accounts : db.accounts[id].balance = GetAccountBalance(db, id)

\* C3: a call that returns an error has committed nothing: the step that ends
\* a failed call leaves the committed tables as they are, and the committed
\* tables change only in the step that ends a call with a nil result, by all
\* the writes of that call at once.
FailedCallCommitsNothing ==
    [][ /\ \A p \in Procs :
             (pc[p] # "done" /\ pc'[p] = "done" /\ result'[p] # NoError) => db' = db
        /\ db' # db =>
             \E p \in Procs : /\ pc[p] = "commit" /\ pc'[p] = "done"
                              /\ result'[p] = NoError
                              /\ db' = Publish(db, pend[p]) ]_vars

\* A Transfer or Exchange has failed its invariant check, after its rows were
\* written inside the transaction, and returned the error.
FailedCallWitness ==
    \E p \in Procs : /\ pc[p] = "done"
                     /\ op[p].kind \in {"transfer", "exchange"}
                     /\ result[p].kind = "AccountBalanceMismatch"
                     /\ db.users # {}

\* C4: no reachable state holds a cycle of operations each waiting for a row
\* lock that the next one holds.
NoLockWaitCycle == \A p \in Procs : ~InWaitCycle(p)

\* The change that the command cmd asks for on the balance of account id.
CommandDelta(cmd, id) ==
    CASE cmd.kind = "transfer" ->
            (IF id = cmd.to THEN cmd.money.amount ELSE 0)
            - (IF id = cmd.from THEN cmd.money.amount ELSE 0)
      [] cmd.kind = "exchange" ->
            LET s == cmd.sourceAmount
                tc == db.accounts[cmd.targetAccount].currency
                t == Convert(GetRate(s.currency, tc), s).money
            IN  (IF id = cmd.targetAccount THEN t.amount ELSE 0)
                - (IF id = cmd.sourceAccount THEN s.amount ELSE 0)
                + (IF id = GetCashbookAccount(s.currency) THEN s.amount ELSE 0)
                - (IF id = GetCashbookAccount(tc) THEN t.amount ELSE 0)
      [] cmd.kind = "register" ->
            (IF id = UsdAccountOf(cmd.email) THEN InitialUSD ELSE 0)
            + (IF id = EurAccountOf(cmd.email) THEN InitialEUR ELSE 0)
            - (IF id = CashbookUSD THEN InitialUSD ELSE 0)
            - (IF id = CashbookEUR THEN InitialEUR ELSE 0)

\* A worker gets the lock of account row r only when no open transaction
\* holds it, and then reads the balance the last commit left in the row; the
\* stored balance of r changes only when the holder of its lock commits.
RowLockStep(r) ==
    /\ \A p \in Procs :
          (locks[r] # p /\ locks'[r] = p) =>
              /\ locks[r] = 0
              /\ \E n \in DOMAIN mem'[p] :
                    mem'[p][n].id = r /\ mem'[p][n].balance = db.accounts[r].balance
    /\ db'.accounts[r].balance # db.accounts[r].balance =>
          \E p \in Procs : locks[r] = p /\ pc[p] = "commit" /\ result'[p] = NoError

\* The commit of a call adds to every row it holds what its command asks for.
CommitDeltaStep(r) ==
    \A p \in Procs :
        (locks[r] = p /\ pc[p] = "commit" /\ pc'[p] = "done" /\ result'[p] = NoError) =>
            db'.accounts[r].balance = db.accounts[r].balance + CommandDelta(op[p], r)

RowLockSerialises == [][\A r \in DOMAIN db.accounts : RowLockStep(r)]_vars

\* C5: a second GetForUpdate of a row returns only after the first holder has
\* committed or rolled back and reads the balance it left; hence the stored
\* balance of a contended account is its initial balance plus the deltas of
\* exactly the committed operations.
ContendedBalanceIsSumOfDeltas ==
    [][\A r \in DOMAIN db.accounts : RowLockStep(r) /\ CommitDeltaStep(r)]_vars

\* C6: in every committed state every account not owned by the cashbook user
\* has a stored balance of at least zero.
UserBalancesNonNegative ==
    \A id \in UserRows : db.accounts[id].balance >= 0

\* A call has been refused for insufficient funds of a user account.
UserBalancesWitness ==
    \E p \in Procs : /\ pc[p] = "done"
                     /\ result[p].kind = "InsufficientFunds"
                     /\ result[p].accountID \in UserRows

(***************************************************************************)
(* Properties of a batch of concurrent transfers (SpecBatch).              *)
(***************************************************************************)
NewLedgerRows(id) == {r \in db.ledger \ RegisteredDB.ledger : r.account = id}

\* What the batch of NumProcs transfers cmd must have done once every worker
\* has returned.
BatchOutcome(cmd) ==
    LET total == NumProcs * cmd.money.amount IN
    /\ \A p \in Procs : result[p] = NoError
    /\ db.accounts[cmd.from].balance = RegisteredDB.accounts[cmd.from].balance - total
    /\ db.accounts[cmd.to].balance = RegisteredDB.accounts[cmd.to].balance + total
    /\ Cardinality(NewLedgerRows(cmd.from)) = NumProcs
    /\ Cardinality(NewLedgerRows(cmd.to)) = NumProcs

BatchFits(cmd) ==
    NumProcs * cmd.money.amount <= RegisteredDB.accounts[cmd.from].balance

\* C7: N concurrent transfers of a from A to another account B of the same
\* currency, with N * a within the balance of A, all succeed: none returns an
\* error, none waits in a cycle of lock waits, and when all have returned A
\* holds N * a less, B holds N * a more and each has exactly N new ledger rows.
ConcurrentTransfersAllSucceed ==
    \A p \in Procs :
        /\ ~InWaitCycle(p)
        /\ (pc[p] = "done" /\ BatchFits(op[p])) =>
              /\ result[p] = NoError
              /\ (\A q \in Procs : pc[q] = "done") => BatchOutcome(op[p])

\* The same for amounts in whole cents.
ConcurrentCentTransfersAllSucceed ==
    \A p \in Procs :
        /\ ~InWaitCycle(p)
        /\ (pc[p] = "done" /\ BatchFits(op[p]) /\ op[p].money.amount % Cent = 0) =>
              /\ result[p] = NoError
              /\ (\A q \in Procs : pc[q] = "done") => BatchOutcome(op[p])

(***************************************************************************)
(* Properties of single calls (SpecOps).                                   *)
(***************************************************************************)
\* The step in which the call of p commits and returns nil.
Succeeds(p, kind) ==
    /\ op[p].kind = kind
    /\ pc[p] = "commit" /\ pc'[p] = "done" /\ result'[p] = NoError

\* The step in which the call of p returns.
Returns(p) == pc[p] # "done" /\ pc'[p] = "done"

LegOf(r) == <<r.account, r.amount, r.currency>>

\* The effects of a Transfer of m from account A to account B.
TransferEffects(A, B, m) ==
    /\ db'.accounts[A].balance = db.accounts[A].balance - m.amount
    /\ db'.accounts[B].balance = db.accounts[B].balance + m.amount
    /\ \A id \in DOMAIN db'.accounts \ {A, B} : db'.accounts[id] = db.accounts[id]
    /\ \E t \in db'.transactions :
          /\ db'.transactions \ db.transactions = {t}
          /\ t.type = "transfer" /\ t.account = A
    /\ Cardinality(db'.transferDetails \ db.transferDetails) = 1
    /\ Cardinality(db'.ledger \ db.ledger) = 2
    /\ {LegOf(r) : r \in db'.ledger \ db.ledger} =
          {<<A, -m.amount, m.currency>>, <<B, m.amount, m.currency>>}

\* C8: a successful Transfer of a positive amount a from A to another account
\* B, both of the currency of a and A holding at least a, takes exactly a from
\* the stored balance of A, adds exactly a to that of B, leaves every other
\* account alone and appends one transfer transaction anchored on A, one
\* TransferDetails row and the two ledger records (A, -a) and (B, +a).
TransferSuccessEffects ==
    [][\A p \in Procs :
         (/\ Succeeds(p, "transfer")
          /\ op[p].money.amount > 0
          /\ op[p].from # op[p].to
          /\ db.accounts[op[p].from].currency = op[p].money.currency
          /\ db.accounts[op[p].to].currency = op[p].money.currency
          /\ db.accounts[op[p].from].balance >= op[p].money.amount)
         => TransferEffects(op[p].from, op[p].to, op[p].money)]_vars

\* The same for amounts in whole cents.
CentTransferSuccessEffects ==
    [][\A p \in Procs :
         (/\ Succeeds(p, "transfer")
          /\ op[p].money.amount > 0
          /\ op[p].money.amount % Cent = 0
          /\ op[p].from # op[p].to
          /\ db.accounts[op[p].from].currency = op[p].money.currency
          /\ db.accounts[op[p].to].currency = op[p].money.currency
          /\ db.accounts[op[p].from].balance >= op[p].money.amount)
         => TransferEffects(op[p].from, op[p].to, op[p].money)]_vars

\* The effects of an Exchange of s from account S into t on account T.
ExchangeEffects(S, T, s, t) ==
    LET CS == GetCashbookAccount(s.currency)
        CT == GetCashbookAccount(t.currency)
    IN
    /\ db'.accounts[S].balance = db.accounts[S].balance - s.amount
    /\ db'.accounts[T].balance = db.accounts[T].balance + t.amount
    /\ db'.accounts[CS].balance = db.accounts[CS].balance + s.amount
    /\ db'.accounts[CT].balance = db.accounts[CT].balance - t.amount
    /\ \E x \in db'.transactions :
          /\ db'.transactions \ db.transactions = {x}
          /\ x.type = "exchange" /\ x.account = S
    /\ Cardinality(db'.exchangeDetails \ db.exchangeDetails) = 1
    /\ Cardinality(db'.ledger \ db.ledger) = 4
    /\ {LegOf(r) : r \in db'.ledger \ db.ledger} =
          {<<S, -s.amount, s.currency>>, <<CS, s.amount, s.currency>>,
           <<CT, -t.amount, t.currency>>, <<T, t.amount, t.currency>>}

\* round2(s * rate) in the currency of account T.
TargetAmount(s, T) ==
    Convert(GetRate(s.currency, db.accounts[T].currency), s).money

\* C9: a successful Exchange of a positive source amount s from a source
\* account to a target account of the other currency, with t = round2(s *
\* rate), takes s from the source, adds t to the target, adds s to the
\* cashbook of the source currency, takes t from the cashbook of the target
\* currency and appends one exchange transaction anchored on the source, one
\* ExchangeDetails row and the four ledger records (source, -s), (source
\* cashbook, +s), (target cashbook, -t), (target, +t).
ExchangeSuccessEffects ==
    [][\A p \in Procs :
         (/\ Succeeds(p, "exchange")
          /\ op[p].sourceAmount.amount > 0
          /\ db.accounts[op[p].sourceAccount].currency
                # db.accounts[op[p].targetAccount].currency)
         => ExchangeEffects(op[p].sourceAccount, op[p].targetAccount,
                            op[p].sourceAmount,
                            TargetAmount(op[p].sourceAmount, op[p].targetAccount))]_vars

\* The same for source amounts in whole cents.
CentExchangeSuccessEffects ==
    [][\A p \in Procs :
         (/\ Succeeds(p, "exchange")
          /\ op[p].sourceAmount.amount > 0
          /\ op[p].sourceAmount.amount % Cent = 0
          /\ db.accounts[op[p].sourceAccount].currency
                # db.accounts[op[p].targetAccount].currency)
         => ExchangeEffects(op[p].sourceAccount, op[p].targetAccount,
                            op[p].sourceAmount,
                            TargetAmount(op[p].sourceAmount, op[p].targetAccount))]_vars

CommandSource(cmd) == IF cmd.kind = "transfer" THEN cmd.from ELSE cmd.sourceAccount
CommandTarget(cmd) == IF cmd.kind = "transfer" THEN cmd.to ELSE cmd.targetAccount
CommandAmount(cmd) == IF cmd.kind = "transfer" THEN cmd.money ELSE cmd.sourceAmount

\* The amount of the Transfer or Exchange cmd exceeds the stored balance of its
\* source account, which is not a cashbook.
Overdraws(cmd) ==
    /\ cmd.kind \in {"transfer", "exchange"}
    /\ CommandSource(cmd) \in DOMAIN db.accounts
    /\ db.accounts[CommandSource(cmd)].userID # CashbookUserID
    /\ CommandAmount(cmd).amount > db.accounts[CommandSource(cmd)].balance

\* The call of p returns InsufficientFunds with the source account, the
\* requested amount and the available balance, and nothing is committed.
RefusedForFunds(p) ==
    /\ result'[p] = [kind |-> "InsufficientFunds",
                     accountID |-> CommandSource(op[p]),
                     requested |-> CommandAmount(op[p]).amount,
                     available |-> db.accounts[CommandSource(op[p])].balance]
    /\ db' = db

\* The other account exists and, for an Exchange, has the other currency than
\* the source account, in whose currency the amount is given.
ReachesDebit(cmd) ==
    /\ CommandTarget(cmd) \in DOMAIN db.accounts
    /\ cmd.kind = "exchange" =>
          /\ db.accounts[cmd.sourceAccount].currency
                # db.accounts[cmd.targetAccount].currency
          /\ cmd.sourceAmount.currency = db.accounts[cmd.sourceAccount].currency

\* C10 as stated: every Transfer or Exchange whose amount exceeds the balance
\* of its non-cashbook source account fails with InsufficientFunds carrying
\* the account, the requested amount and the available balance, and changes
\* nothing.
OverdrawRefused ==
    [][\A p \in Procs : (Returns(p) /\ Overdraws(op[p])) => RefusedForFunds(p)]_vars

\* C10: a Transfer whose recipient exists, or an Exchange whose target exists
\* and has the other currency than the source account with the amount given
\* in the source account's currency, that asks for more than the balance of
\* its non-cashbook source account fails with InsufficientFunds carrying the
\* account, the requested amount and the available balance, and changes
\* nothing.
OverdrawReachingDebitRefused ==
    [][\A p \in Procs :
         (Returns(p) /\ Overdraws(op[p]) /\ ReachesDebit(op[p])) => RefusedForFunds(p)]_vars

\* An Exchange that asked for more than the source held has been refused.
OverdrawRefusedWitness ==
    /\ pc[Caller] = "done"
    /\ op[Caller].kind = "exchange"
    /\ result[Caller].kind = "InsufficientFunds"
    /\ result[Caller].accountID = op[Caller].sourceAccount
    /\ result[Caller].requested > result[Caller].available
    /\ ReachesDebit(op[Caller])

\* A Transfer of a positive amount between two existing accounts, the amount
\* being of another currency than the sender's or the recipient's account.
CrossCurrencyTransfer(cmd) ==
    /\ cmd.kind = "transfer"
    /\ cmd.from \in DOMAIN db.accounts
    /\ cmd.to \in DOMAIN db.accounts
    /\ cmd.money.amount > 0
    /\ \/ cmd.money.currency # db.accounts[cmd.from].currency
       \/ cmd.money.currency # db.accounts[cmd.to].currency

\* C11 as stated: every Transfer of a positive amount between two existing
\* accounts whose currency differs from the sender's or the recipient's is
\* rejected with CurrencyMismatch and changes no balance and no ledger row.
CrossCurrencyTransferMismatch ==
    [][\A p \in Procs :
         (Returns(p) /\ CrossCurrencyTransfer(op[p]))
         => (result'[p] = Err("CurrencyMismatch") /\ db' = db)]_vars

\* C11: every such Transfer is rejected and changes no balance and no ledger
\* row; the error is InsufficientFunds when the sender is not a cashbook and
\* holds less than the amount, whatever the currencies, and CurrencyMismatch
\* otherwise.
CrossCurrencyTransferRefused ==
    [][\A p \in Procs :
         (Returns(p) /\ CrossCurrencyTransfer(op[p]))
         => /\ db' = db
            /\ IF Overdraws(op[p])
               THEN RefusedForFunds(p)
               ELSE result'[p] = Err("CurrencyMismatch")]_vars

\* A Transfer of dollars from a dollar account to a euro account that holds
\* them has returned CurrencyMismatch.
CrossCurrencyTransferWitness ==
    /\ pc[Caller] = "done"
    /\ CrossCurrencyTransfer(op[Caller])
    /\ ~Overdraws(op[Caller])
    /\ op[Caller].money.currency = db.accounts[op[Caller].from].currency
    /\ result[Caller] = Err("CurrencyMismatch")

\* A Transfer from an existing account to itself of a positive amount of the
\* account's currency that the account can cover.
SelfTransfer(cmd) ==
    /\ cmd.kind = "transfer"
    /\ cmd.from = cmd.to
    /\ cmd.from \in DOMAIN db.accounts
    /\ cmd.money.amount > 0
    /\ cmd.money.currency = db.accounts[cmd.from].currency
    /\ ~Overdraws(cmd)

\* The call of p returns the AccountBalanceMismatch of the account/ledger
\* consistency check on its sender and commits nothing.
RefusedForMismatch(p) ==
    /\ result'[p].kind = "AccountBalanceMismatch"
    /\ result'[p].accountID = op[p].from
    /\ result'[p].ledgerBalance = GetAccountBalance(db, op[p].from)
    /\ db' = db

\* C12: a Transfer whose source and destination are the same account, with a
\* positive amount that the account can cover, is rejected with
\* AccountBalanceMismatch by the account/ledger consistency check run before
\* commit, and the stored balance of the account and the ledger are
\* unchanged.
SelfTransferMismatch ==
    [][\A p \in Procs :
         (Returns(p) /\ SelfTransfer(op[p])) => RefusedForMismatch(p)]_vars

\* The same for amounts that the two-decimal amount column of the transfer
\* row stores as a positive value.
StorableSelfTransferMismatch ==
    [][\A p \in Procs :
         (Returns(p) /\ SelfTransfer(op[p]) /\ Round2(op[p].money.amount) > 0)
         => RefusedForMismatch(p)]_vars

\* A Transfer of amount zero, in the currency of the accounts, between two
\* existing accounts of one currency.
ZeroTransfer(cmd) ==
    /\ cmd.kind = "transfer"
    /\ cmd.from \in DOMAIN db.accounts
    /\ cmd.to \in DOMAIN db.accounts
    /\ cmd.money.amount = 0
    /\ db.accounts[cmd.from].currency = cmd.money.currency
    /\ db.accounts[cmd.to].currency = cmd.money.currency

\* C13: a Transfer of amount zero between two existing accounts of the
\* amount's currency is accepted by TransferService.Execute and fails when the
\* TransferDetails row is persisted (CHECK amount > 0): the call returns that
\* error and both balances and the ledger are unchanged.
ZeroTransferFailsAtPersistence ==
    [][\A p \in Procs :
         (Returns(p) /\ ZeroTransfer(op[p]))
         => /\ TransferExecute(LoadAccount(db, op[p].from), LoadAccount(db, op[p].to),
                               op[p].money, <<op[p].id, 1>>).err = NoError
            /\ result'[p] = Err("CheckViolation")
            /\ db' = db]_vars

\* A Transfer of zero between two different accounts has returned the
\* constraint violation.
ZeroTransferWitness ==
    /\ pc[Caller] = "done"
    /\ ZeroTransfer(op[Caller])
    /\ op[Caller].from # op[Caller].to
    /\ result[Caller] = Err("CheckViolation")

\* A Transfer of a negative amount between two existing accounts.
NegativeTransfer(cmd) ==
    /\ cmd.kind = "transfer"
    /\ cmd.from \in DOMAIN db.accounts
    /\ cmd.to \in DOMAIN db.accounts
    /\ cmd.money.amount < 0

\* C14: a Transfer of a negative amount between two existing accounts is
\* rejected with NegativeTransfer: the step of TransferService.Execute leaves
\* both loaded accounts and the writes of the transaction as they were, the
\* call returns NegativeTransfer and no balance or ledger row changes.
NegativeTransferRefused ==
    [][\A p \in Procs :
         /\ (pc[p] = "t_exec" /\ pc'[p] # "t_exec" /\ NegativeTransfer(op[p]))
            => /\ err'[p] = Err("NegativeTransfer")
               /\ mem'[p] = mem[p]
               /\ pend'[p] = pend[p]
         /\ (Returns(p) /\ NegativeTransfer(op[p]))
            => /\ result'[p] = Err("NegativeTransfer")
               /\ db' = db]_vars

\* A Transfer of a negative amount has returned NegativeTransfer.
NegativeTransferWitness ==
    /\ pc[Caller] = "done"
    /\ NegativeTransfer(op[Caller])
    /\ op[Caller].from # op[Caller].to
    /\ result[Caller] = Err("NegativeTransfer")

\* An Exchange between the USD and the EUR account of one user, the source
\* amount being given in the currency of the source account.
OwnAccountsExchange(cmd) ==
    /\ cmd.kind = "exchange"
    /\ cmd.sourceAccount \in UserRows
    /\ cmd.targetAccount \in UserRows
    /\ db.accounts[cmd.sourceAccount].userID = db.accounts[cmd.targetAccount].userID
    /\ db.accounts[cmd.sourceAccount].currency # db.accounts[cmd.targetAccount].currency
    /\ cmd.sourceAmount.currency = db.accounts[cmd.sourceAccount].currency

\* The error of ExchangeService.Execute for a source amount that is not
\* positive.
NonPositiveExchangeError(amount) ==
    IF amount < 0 THEN Err("NegativeExchange") ELSE Err("ZeroExchange")

\* C15: an Exchange between a user's USD and EUR accounts whose source amount
\* is negative or zero is rejected by ExchangeService.Execute before any
\* balance is changed or any row written: the step of Execute leaves the four
\* loaded accounts and the writes of the transaction as they were, the call
\* returns NegativeExchange for a negative amount and the zero-amount error
\* for zero, and the committed balances and ledger are unchanged.
NonPositiveExchangeRefused ==
    [][\A p \in Procs :
         /\ (/\ pc[p] = "x_exec" /\ pc'[p] # "x_exec"
             /\ OwnAccountsExchange(op[p]) /\ op[p].sourceAmount.amount <= 0)
            => /\ err'[p] = NonPositiveExchangeError(op[p].sourceAmount.amount)
               /\ mem'[p] = mem[p]
               /\ pend'[p] = EmptyTx
         /\ (/\ Returns(p)
             /\ OwnAccountsExchange(op[p]) /\ op[p].sourceAmount.amount <= 0)
            => /\ result'[p] = NonPositiveExchangeError(op[p].sourceAmount.amount)
               /\ db' = db]_vars

\* An Exchange of zero from a user's EUR account to their USD account has
\* returned the zero-amount error.
NonPositiveExchangeWitness ==
    /\ pc[Caller] = "done"
    /\ OwnAccountsExchange(op[Caller])
    /\ op[Caller].sourceAmount = Money(0, "EUR")
    /\ result[Caller] = Err("ZeroExchange")

\* The first account the Transfer or Exchange cmd reads that does not exist:
\* the sender or source, else the recipient or target.
MissingAccount(cmd) ==
    IF CommandSource(cmd) \notin DOMAIN db.accounts
    THEN CommandSource(cmd) ELSE CommandTarget(cmd)

\* A Transfer or Exchange that names an account that does not exist.
NamesMissingAccount(cmd) ==
    /\ cmd.kind \in {"transfer", "exchange"}
    /\ \/ CommandSource(cmd) \notin DOMAIN db.accounts
       \/ CommandTarget(cmd) \notin DOMAIN db.accounts

\* C16: a Transfer or Exchange that names a non-existent account as sender or
\* recipient, source or target, fails with AccountNotFound for that account,
\* and the balance of the existing account and the ledger are unchanged.
MissingAccountNotFound ==
    [][\A p \in Procs :
         (Returns(p) /\ NamesMissingAccount(op[p]))
         => /\ result'[p] = [kind |-> "AccountNotFound",
                             accountID |-> MissingAccount(op[p])]
            /\ db' = db]_vars

\* An Exchange from an existing account to a target that does not exist has
\* returned AccountNotFound for the target.
MissingAccountWitness ==
    /\ pc[Caller] = "done"
    /\ op[Caller].kind = "exchange"
    /\ op[Caller].sourceAccount \in DOMAIN db.accounts
    /\ op[Caller].targetAccount \notin DOMAIN db.accounts
    /\ result[Caller].kind = "AccountNotFound"
    /\ result[Caller].accountID = op[Caller].targetAccount

\* An Exchange between two existing accounts of one currency.
SameCurrencyAccountsExchange(cmd) ==
    /\ cmd.kind = "exchange"
    /\ cmd.sourceAccount \in DOMAIN db.accounts
    /\ cmd.targetAccount \in DOMAIN db.accounts
    /\ db.accounts[cmd.sourceAccount].currency = db.accounts[cmd.targetAccount].currency

\* C17 as stated: every Exchange whose source and target accounts hold the
\* same currency is rejected with SameCurrencyExchange or
\* SameCurrencyExchangeRate, whatever the currency of the source amount, and
\* the balances and the ledger are unchanged.
SameCurrencyExchangeRefused ==
    [][\A p \in Procs :
         (Returns(p) /\ SameCurrencyAccountsExchange(op[p]))
         => /\ result'[p].kind \in {"SameCurrencyExchange", "SameCurrencyExchangeRate"}
            /\ db' = db]_vars

\* C17: every Exchange whose source and target accounts hold the same
\* currency is rejected and the balances and the ledger are unchanged: with
\* SameCurrencyExchangeRate when the source amount is of that currency;
\* otherwise with NegativeExchange for a negative amount, the zero-amount
\* error for zero and SameCurrencyExchange for a positive amount.
SameCurrencyExchangeRejected ==
    [][\A p \in Procs :
         (Returns(p) /\ SameCurrencyAccountsExchange(op[p]))
         => /\ db' = db
            /\ result'[p] =
                 IF op[p].sourceAmount.currency = db.accounts[op[p].targetAccount].currency
                 THEN Err("SameCurrencyExchangeRate")
                 ELSE IF op[p].sourceAmount.amount <= 0
                 THEN NonPositiveExchangeError(op[p].sourceAmount.amount)
                 ELSE Err("SameCurrencyExchange")]_vars

\* An Exchange of a positive amount of the other currency between two
\* different accounts of one currency has returned SameCurrencyExchange.
SameCurrencyExchangeWitness ==
    /\ pc[Caller] = "done"
    /\ SameCurrencyAccountsExchange(op[Caller])
    /\ op[Caller].sourceAccount # op[Caller].targetAccount
    /\ op[Caller].sourceAmount.amount > 0
    /\ result[Caller] = Err("SameCurrencyExchange")

(***************************************************************************)
(* Properties of rates and conversions (SpecRates).                        *)
(***************************************************************************)
\* qr is the quotient and the remainder of |x| * rate by one cent, and y is
\* that product rounded to whole cents, a half going away from zero (up, for
\* the amounts an exchange converts, which are positive).
RoundedFrom(qr, x, y) ==
    /\ y % Cent = 0
    /\ (x >= 0 => y >= 0) /\ (x <= 0 => y <= 0)
    /\ \/ Abs(y) = qr[1] * Cent /\ 2 * qr[2] < RateScale * Cent
       \/ Abs(y) = (qr[1] + 1) * Cent /\ 2 * qr[2] >= RateScale * Cent

\* y is x * rate rounded half-up to two decimals.
IsRoundedProduct(x, rate, y) ==
    RoundedFrom(MulDivMod(Abs(x), rate, RateScale * Cent), x, y)

\* C18: for every ExchangeRate(from, to, rate) and every Money x, Convert(x)
\* fails with CurrencyMismatch when the currency of x is not from, and
\* otherwise returns a Money in currency to whose amount is x.amount * rate
\* rounded half-up to two decimals; at rate 0.92, 100 USD gives 92.00 EUR and
\* 123.45 USD gives 113.57 EUR.
ConvertRoundsHalfUp ==
    \A p \in Procs :
        (pc[p] = "done" /\ op[p].kind = "convert") =>
            IF op[p].money.currency # op[p].rate.from
            THEN result[p] = Err("CurrencyMismatch")
            ELSE /\ result[p] = NoError
                 /\ mem[p].value.money.currency = op[p].rate.to
                 /\ IsRoundedProduct(op[p].money.amount, op[p].rate.rate,
                                     mem[p].value.money.amount)
                 /\ (op[p].rate.rate = 920000 /\ op[p].money.amount = 100 * Unit)
                       => mem[p].value.money.amount = 92 * Unit
                 /\ (op[p].rate.rate = 920000
                        /\ op[p].money.amount = 123 * Unit + 45 * Cent)
                       => mem[p].value.money.amount = 113 * Unit + 57 * Cent
                 /\ (op[p].rate.rate = RateScale
                        /\ op[p].money.amount = 12 * Cent + SubCent)
                       => mem[p].value.money.amount = 13 * Cent

\* 123.45 USD has been converted at 0.92 into 113.57 EUR.
ConvertWitness ==
    /\ pc[Caller] = "done"
    /\ op[Caller].kind = "convert"
    /\ op[Caller].rate = [err |-> NoError, from |-> "USD", to |-> "EUR", rate |-> 920000]
    /\ op[Caller].money = Money(123 * Unit + 45 * Cent, "USD")
    /\ result[Caller] = NoError
    /\ mem[Caller].value.money = Money(113 * Unit + 57 * Cent, "EUR")

\* qr is the quotient and the remainder of q * r by 1000, both q and r in
\* millionths: q is 1 / r rounded half-up to six decimals, that is,
\* -r/2 < q * r - 1 <= r/2 in units of 10^-12.
InverseFrom(qr, r) ==
    \/ qr[1] = 1000 /\ 2 * qr[2] <= r
    \/ qr[1] = 999 /\ 2 * (RateScale * 1000 - qr[2]) < r

IsRoundedInverse(q, r) == InverseFrom(MulDivMod(q, r, RateScale * 1000), r)

\* What GetRate(from, to) of a provider built with rate r has to answer.
RateAnswered(r, from, to, e, out) ==
    IF from = to THEN e = Err("SameCurrencyExchangeRate")
    ELSE IF from = "USD" /\ to = "EUR"
    THEN /\ e = NoError
         /\ out.value.from = from /\ out.value.to = to
         /\ out.value.rate = r
    ELSE IF from = "EUR" /\ to = "USD"
    THEN /\ e = NoError
         /\ out.value.from = from /\ out.value.to = to
         /\ IsRoundedInverse(out.value.rate, r)
    ELSE e = Err("ExchangeRateNotFound")

\* C19: the fixed rate provider built with USD-to-EUR rate r returns rate r
\* for (USD, EUR), 1 / r rounded half-up to six decimals for (EUR, USD),
\* SameCurrencyExchangeRate when from equals to and ExchangeRateNotFound for
\* every other pair; with r = 0.92 a successful Exchange of 92 EUR credits
\* exactly 100.00 USD to the target account.
ProviderRatesAndInverse ==
    [][\A p \in Procs :
         /\ (pc[p] = "g_exec" /\ pc'[p] = "done")
            => RateAnswered(op[p].usdToEurRate, op[p].from, op[p].to,
                            result'[p], mem'[p])
         /\ (Succeeds(p, "exchange") /\ op[p].sourceAmount = Money(92 * Unit, "EUR"))
            => db'.accounts[op[p].targetAccount].balance =
                  db.accounts[op[p].targetAccount].balance + 100 * Unit]_vars

\* The provider built with 0.92 has answered 1.086957 for (EUR, USD), and an
\* Exchange of 92 EUR is committed.
ProviderInverseWitness ==
    /\ pc[Caller] = "done"
    /\ op[Caller].kind = "getRate"
    /\ op[Caller].usdToEurRate = UsdToEurRate
    /\ op[Caller].from = "EUR" /\ op[Caller].to = "USD"
    /\ result[Caller] = NoError
    /\ mem[Caller].value.rate = 1086957
    /\ \E x \in db.exchangeDetails :
          x.sourceAmount = 92 * Unit /\ x.targetAmount = 100 * Unit

(***************************************************************************)
(* Properties of the transaction manager (SpecTrm).                        *)
(***************************************************************************)
\* The step in which fn returns to DoTx.
FnReturns(p) == pc[p] \notin {"idle", "commit", "rollback", "done"}
                /\ pc'[p] \in {"commit", "rollback"}

\* The commit side of Do: tx.Commit() is attempted exactly when fn returned
\* nil, and when it succeeds the writes made through the bound handle become
\* visible and Do returns nil.
CommitIffNil(p) ==
    /\ FnReturns(p) => (pc'[p] = "commit" <=> err'[p] = NoError)
    /\ (pc[p] = "commit" /\ pc'[p] = "done")
         => /\ err[p] = NoError
            /\ \/ result'[p] = NoError /\ db' = Publish(db, pend[p])
               \/ result'[p] # NoError /\ db' = db
    /\ (pc[p] # "commit" /\ pc'[p] = "done") => (db' = db /\ result'[p] # NoError)

\* C20 as stated: for every Do whose transaction was begun, commit is
\* attempted if and only if fn returned nil; if fn returned an error, rollback
\* is performed, commit is never attempted, the writes made through the bound
\* handle are not visible afterwards and Do returns fn's error; if fn returned
\* nil and commit succeeds, the writes are visible and Do returns nil.
DoReturnsFnError ==
    [][\A p \in Procs :
         /\ CommitIffNil(p)
         /\ (pc[p] = "rollback" /\ pc'[p] # "rollback")
              => /\ pc'[p] = "done"
                 /\ db' = db /\ pend'[p] = EmptyTx
                 /\ result'[p] = err[p]]_vars

\* C20: the same, except that Do returns fn's error only when tx.Rollback()
\* succeeds; when the rollback fails Do returns the rollback failure in its
\* place, and the writes are not visible either way.
DoReturnsFnOrRollbackError ==
    [][\A p \in Procs :
         /\ CommitIffNil(p)
         /\ (pc[p] = "rollback" /\ pc'[p] # "rollback")
              => /\ pc'[p] = "done"
                 /\ db' = db /\ pend'[p] = EmptyTx
                 /\ result'[p] \in {err[p], Err("RollbackFailed")}
                 /\ result'[p] # NoError]_vars

\* A Transfer whose fn failed after writing its rows inside the transaction
\* has been rolled back and has returned fn's error, after an earlier Transfer
\* was committed.
DoRollbackWitness ==
    /\ pc[Caller] = "done"
    /\ op[Caller].from = op[Caller].to
    /\ result[Caller].kind = "AccountBalanceMismatch"
    /\ err[Caller] = result[Caller]
    /\ db.transferDetails # RegisteredDB.transferDetails

\* The step in which tx.Commit() is attempted for the call of p and Do
\* returns.
CommitAttempt(p) == pc[p] = "commit" /\ pc'[p] = "done"

\* C21: when fn returns nil and the commit fails, Do attempts a
\* rollback and returns an error that surfaces the commit failure, whether or
\* not that rollback attempt itself succeeds.
CommitFailureSurfaced ==
    [][\A p \in Procs :
         (CommitAttempt(p) /\ db' # Publish(db, pend[p]))
         => /\ result'[p] = Err("CommitFailed")
            /\ db' = db /\ pend'[p] = EmptyTx]_vars

\* What does hold: the error returned is the commit failure when the rollback
\* that follows succeeds and the rollback failure alone when it fails, and the
\* writes do not become visible.
CommitOrRollbackFailureSurfaced ==
    [][\A p \in Procs :
         (CommitAttempt(p) /\ db' # Publish(db, pend[p]))
         => /\ result'[p] \in {Err("CommitFailed"), Err("RollbackFailed")}
            /\ db' = db /\ pend'[p] = EmptyTx]_vars

(***************************************************************************)
(* Nested units of work (SpecNested).                                      *)
(***************************************************************************)
OuterCommits == pc[Caller] = "commit" /\ pc'[Caller] = "done"

\* C22: a Do invoked with a transaction already bound begins no new storage
\* transaction: the inner fn writes into the bound transaction, so the stored
\* state changes only when the outer Do commits, and an outer Do that returned an
\* error left nothing of the inner fn's writes behind.
NestedDoJoinsOuter ==
    [][/\ pend'[Nested] = EmptyTx
       /\ db' # db => OuterCommits]_vars

\* C23: Transfers.Insert and Exchanges.Insert called with a context in which
\* no transaction is bound return the programmer error and store nothing: no
\* transactions, details or ledger row is added.
InsertNeedsTransaction ==
    [][\A p \in Procs :
         (pc[p] = "idle" /\ op'[p].kind = "insert")
         => /\ result'[p] = InsertOutsideTransaction
            /\ db' = db]_vars

InsertRefusedWitness ==
    /\ \E p \in Procs :
         /\ pc[p] = "done" /\ op[p].kind = "insert"
         /\ op[p].repository = "exchanges"
         /\ result[p] = InsertOutsideTransaction
    /\ db.transactions # {}

(***************************************************************************)
(* Reads outside a unit of work (SpecRead).                                *)
(***************************************************************************)
Reports == {mem[p].report : p \in {q \in Procs : pc[q] = "done" /\ op[q].kind = "reconcile"}}

\* C24: in every report returned by Reconcile, isConsistent is true exactly
\* when every per-currency status is balanced, i.e. has sum 0, and there is no
\* account mismatch; the difference of a mismatch is its account balance minus
\* its ledger balance.
ReportIsConjunction ==
    \A r \in Reports :
        /\ r.isConsistent <=> /\ \A b \in r.ledgerBalances : b.isBalanced
                              /\ r.accountMismatches = {}
        /\ \A b \in r.ledgerBalances : b.isBalanced <=> b.totalSum = 0
        /\ \A m \in r.accountMismatches :
              m.difference = m.accountBalance - m.ledgerBalance

InconsistentReportWitness ==
    \E r \in Reports :
        /\ ~r.isConsistent
        /\ r.accountMismatches # {}
        /\ \E b \in r.ledgerBalances : b.isBalanced

\* C25: Reconcile on the clean system (the cashbook user and its two accounts,
\* no ledger record) reports isConsistent, a ledger sum of 0 for USD and for
\* EUR, no mismatch and at least two accounts checked.
CleanSystemReport ==
    \A r \in Reports :
        db = SeededDB
        => /\ r.isConsistent
           /\ {<<b.currency, b.totalSum>> : b \in r.ledgerBalances}
                 = {<<"USD", 0>>, <<"EUR", 0>>}
           /\ r.accountMismatches = {}
           /\ r.totalAccountsChecked >= 2

\* What the report on the clean system does hold: everything but the sums,
\* of which it lists none.
CleanSystemReportWithoutSums ==
    \A r \in Reports :
        db = SeededDB
        => /\ r.isConsistent
           /\ r.ledgerBalances = {}
           /\ r.accountMismatches = {}
           /\ r.totalAccountsChecked >= 2

\* The invariants of a committed state: per-currency zero sum of the ledger and
\* every stored balance equal to the ledger sum of its account.
Coherent(d) ==
    /\ \A c \in Currency : SumAmounts({r \in d.ledger : r.currency = c}) = 0
    /\ \A id \in DOMAIN d.accounts : d.accounts[id].balance = GetAccountBalance(d, id)

ReadAnswers(p) == pc[p] \in {"rc_totals", "rc_mismatches", "rc_count", "cl_exec", "ca_exec", "gb_exec"} /\ pc'[p] # pc[p]

\* C26: a read made outside a unit of work while Transfers and Exchanges run
\* sees the committed rows only, never the writes of an open transaction: a
\* balance read is the committed ledger sum, a check fails and a report turns
\* inconsistent only on a committed state that breaks the invariants, so that
\* Reconcile never reports isConsistent = false while every committed state
\* keeps them.
ReadsSeeCommittedState ==
    [][\A p \in Procs :
         ReadAnswers(p)
         => /\ pc[p] = "gb_exec"
                 => mem'[p].value = SumAmounts({r \in db.ledger : r.account = op[p].account})
            /\ pc[p] \in {"cl_exec", "ca_exec"} /\ result'[p] # NoError => ~Coherent(db)
            /\ pc[p] = "rc_totals"
                 => {b.currency : b \in mem'[p].report.ledgerBalances}
                        = {r.currency : r \in db.ledger}
            /\ pc[p] = "rc_count"
                 => mem'[p].report.totalAccountsChecked = Cardinality(DOMAIN db.accounts)
            /\ pc[p] \in {"rc_totals", "rc_mismatches", "rc_count"}
                 /\ ~mem'[p].report.isConsistent
                 /\ (pc[p] = "rc_totals" \/ mem[p].report.isConsistent)
                 => ~Coherent(db)]_vars

ReadDuringWriteWitness ==
    \E r \in Reports :
        /\ r.isConsistent
        /\ r.ledgerBalances # {}
        /\ \E q \in Procs : pend[q].ledger # {} /\ pend[q].accounts # NoRows

(***************************************************************************)
(* Cancellation (SpecCancel).                                              *)
(***************************************************************************)
Ends(p) == pc[p] # "done" /\ pc'[p] = "done"

\* C27: a Transfer or Exchange whose request context is cancelled at any
\* point after begin and before commit returns ends without a commit, returns an
\* error, and none of its writes persist.
CancelledNeverPersists ==
    [][\A p \in Procs :
         (Ends(p) /\ op'[p].cancelled)
         => /\ result'[p] # NoError
            /\ db' = db]_vars

\* What holds: a Transfer or Exchange whose request context is cancelled before
\* Do calls tx.Commit returns an error, is not committed, and leaves no write
\* and no lock behind.
CancelledBeforeCommitNeverPersists ==
    [][\A p \in Procs :
         (Ends(p) /\ op[p].cancelled)
         => /\ result'[p] # NoError
            /\ db' = db
            /\ pend'[p] = EmptyTx
            /\ \A r \in Rows : locks'[r] # p]_vars

CancelledAfterWritesWitness ==
    \E p \in Procs :
        /\ pc[p] = "done" /\ op[p].kind = "exchange" /\ op[p].cancelled
        /\ err[p] = NoError
        /\ result[p] # NoError
        /\ db = RegisteredDB

(***************************************************************************)
(* The history tables (Spec).                                              *)
(***************************************************************************)
\* Every row of table old is in table new with the same contents, and no row
\* of new bears the id of a row of old with other contents.
Kept(old, new) ==
    /\ old \subseteq new
    /\ \A r \in new : \A o \in old : r.id = o.id => r = o

\* C28: the ledger, transactions, transfer_details and exchange_details rows
\* are append-only under any interleaving of Register, Transfer and Exchange
\* calls, successful or failed: every committed row is there with unchanged
\* contents in every later committed state.
HistoryAppendOnly ==
    [][/\ Kept(db.ledger, db'.ledger)
       /\ Kept(db.transactions, db'.transactions)
       /\ Kept(db.transferDetails, db'.transferDetails)
       /\ Kept(db.exchangeDetails, db'.exchangeDetails)]_vars

HistoryKeptWitness ==
    /\ db.exchangeDetails # {}
    /\ db.transferDetails # {}
    /\ \E p \in Procs : pc[p] = "done" /\ result[p] # NoError

(***************************************************************************)
(* Ownership of the accounts of an exchange (SpecOps).                     *)
(***************************************************************************)
\* C29: every committed exchange is between two accounts of one user: the
\* owner of the source account of every committed exchange_details row is the
\* owner of its target account.
ExchangeWithinOneUser ==
    \A e \in db.exchangeDetails :
        db.accounts[e.sourceAccount].userID = db.accounts[e.targetAccount].userID

(***************************************************************************)
(* Properties of a batch of concurrent exchanges (SpecExchangeBatch).      *)
(***************************************************************************)
\* What the batch of NumProcs exchanges cmd must have done once every worker
\* has returned.
ExchangeBatchOutcome(cmd) ==
    LET s == cmd.sourceAmount.amount
        t == Convert(GetRate("USD", "EUR"), cmd.sourceAmount).money.amount
    IN
    /\ \A p \in Procs : result[p] = NoError
    /\ db.accounts[cmd.sourceAccount].balance
          = RegisteredDB.accounts[cmd.sourceAccount].balance - NumProcs * s
    /\ db.accounts[cmd.targetAccount].balance
          = RegisteredDB.accounts[cmd.targetAccount].balance + NumProcs * t
    /\ Coherent(db)

ExchangeBatchFits(cmd) ==
    NumProcs * cmd.sourceAmount.amount <= RegisteredDB.accounts[cmd.sourceAccount].balance

\* The worker p is at a statement it can run now or once the holder of the row
\* it wants has returned.
Proceeds(p) ==
    \/ pc[p] \in {"idle", "done"}
    \/ Wanted(p) = 0
    \/ locks[Wanted(p)] \in {0, p}
    \/ /\ ~InWaitCycle(p)
       /\ pc[locks[Wanted(p)]] \notin {"idle", "done"}

\* C30: N concurrent exchanges of s from one user's USD account to the same
\* user's EUR account, with N * s within the USD balance, all succeed: none
\* returns an error, none waits forever, and when all have returned the USD
\* account holds N * s less, the EUR account holds N * round2(s * rate) more,
\* the ledger sums to zero per currency and every stored balance equals the
\* ledger sum of its account.
ConcurrentExchangesAllSucceed ==
    \A p \in Procs :
        /\ Proceeds(p)
        /\ (pc[p] = "done" /\ ExchangeBatchFits(op[p])) =>
              /\ result[p] = NoError
              /\ (\A q \in Procs : pc[q] = "done") => ExchangeBatchOutcome(op[p])

\* The same for source amounts in whole cents.
ConcurrentCentExchangesAllSucceed ==
    \A p \in Procs :
        /\ Proceeds(p)
        /\ (pc[p] = "done" /\ ExchangeBatchFits(op[p])
              /\ op[p].sourceAmount.amount % Cent = 0) =>
              /\ result[p] = NoError
              /\ (\A q \in Procs : pc[q] = "done") => ExchangeBatchOutcome(op[p])

(***************************************************************************)
(* Amounts finer than a cent (SpecOps).                                    *)
(***************************************************************************)
\* A Transfer of a positive amount with more than two decimals between two
\* distinct USD accounts, the sender holding the amount.
FineTransfer(cmd) ==
    /\ cmd.kind = "transfer"
    /\ cmd.money.amount > 0
    /\ cmd.money.amount % Cent # 0
    /\ cmd.money.currency = "USD"
    /\ cmd.from # cmd.to
    /\ cmd.from \in DOMAIN db.accounts /\ cmd.to \in DOMAIN db.accounts
    /\ db.accounts[cmd.from].currency = "USD"
    /\ db.accounts[cmd.to].currency = "USD"
    /\ db.accounts[cmd.from].balance >= cmd.money.amount

\* C31: a Transfer of a positive amount with more than two decimal places
\* (0.0001 USD) between two distinct USD accounts, the sender having the funds,
\* succeeds; afterwards the stored balance of the sender is exactly the amount
\* less, that of the recipient exactly the amount more, the ledger sums to zero
\* per currency and every stored balance equals the ledger sum of its account.
FineTransferExact ==
    [][\A p \in Procs :
         (Returns(p) /\ FineTransfer(op[p]))
         => /\ result'[p] = NoError
            /\ db'.accounts[op[p].from].balance
                  = db.accounts[op[p].from].balance - op[p].money.amount
            /\ db'.accounts[op[p].to].balance
                  = db.accounts[op[p].to].balance + op[p].money.amount
            /\ Coherent(db')]_vars

(***************************************************************************)
(* Transfers over disjoint accounts (SpecDisjoint).                        *)
(***************************************************************************)
\* C32: two concurrent Transfers over disjoint sets of accounts never wait
\* for each other's row locks, and once both have returned the committed state
\* is the one that running them one after the other leaves, in either order.
DisjointTransfersIndependent ==
    /\ \A p \in {Caller, Nested} :
          /\ pc[p] = "t_from" => ENABLED TransferLockFrom(p)
          /\ pc[p] = "t_to" => ENABLED TransferLockTo(p)
    /\ (pc[Caller] = "done" /\ pc[Nested] = "done")
          => /\ db = TransferAlone(TransferAlone(RegisteredDB, op[Caller]), op[Nested])
             /\ db = TransferAlone(TransferAlone(RegisteredDB, op[Nested]), op[Caller])

\* The transfer that began later has committed while the one that began first
\* is about to commit.
DisjointCommitOrderWitness ==
    /\ op[Caller].kind = "transfer" /\ op[Nested].kind = "transfer"
    /\ op[Caller].id < op[Nested].id
    /\ pc[Caller] = "commit"
    /\ pc[Nested] = "done" /\ result[Nested] = NoError
    /\ db.accounts[EurAccountOf(1)].balance # RegisteredDB.accounts[EurAccountOf(1)].balance

(***************************************************************************)
(* The transaction factory (SpecTrm); nOps counts its calls.               *)
(***************************************************************************)
DoEntered(p) == pc[p] = "idle" /\ pc'[p] # "idle"

\* C33: every Do that is not nested obtains a new transaction from the
\* factory: each call of Do is one call of the factory, so that n calls one
\* after the other are n calls of the factory, and the transaction of a call is
\* a new one, with no write and no lock of an earlier call.
FactoryCalledOncePerDo ==
    [][/\ \A p \in Procs :
            DoEntered(p)
            => /\ nOps' = nOps + 1
               /\ op'[p].id = nOps'
               /\ pend'[p] = EmptyTx
               /\ \A r \in Rows : locks'[r] # p
       /\ nOps' # nOps => \E p \in Procs : DoEntered(p)]_vars

SecondDoWitness ==
    /\ nOps = 2
    /\ pc[Caller] = "t_exec"
    /\ db.transferDetails # RegisteredDB.transferDetails

(***************************************************************************)
(* The order of the row locks (Spec).                                      *)
(***************************************************************************)
\* The place of row r in the global lock order of the call cmd: its own
\* accounts by ascending ID, then the USD cashbook, then the EUR cashbook.
LockRank(cmd, r) ==
    IF cmd.kind = "transfer" THEN <<0, r>>
    ELSE IF r \in {cmd.sourceAccount, cmd.targetAccount} THEN <<0, r>>
    ELSE IF r = CashbookUSD THEN <<1, 0>>
    ELSE <<2, 0>>

RankBefore(a, b) == a[1] < b[1] \/ (a[1] = b[1] /\ a[2] < b[2])

\* C34: within every Transfer and every Exchange the account rows are locked
\* in one global order: the accounts of the call by ascending account ID,
\* whichever is the sender or source, then the USD cashbook, then the EUR
\* cashbook.
LocksInGlobalOrder ==
    [][\A p \in Procs : \A r \in Rows :
         (/\ op[p].kind \in {"transfer", "exchange"}
          /\ locks[r] # p /\ locks'[r] = p)
         => \A h \in Rows :
               locks[h] = p => RankBefore(LockRank(op[p], h), LockRank(op[p], r))]_vars

(***************************************************************************)
(* The checks before the commit (Spec).                                    *)
(***************************************************************************)
\* The accounts a Transfer or an Exchange touches, as the handler names them.
Touched(cmd) ==
    IF cmd.kind = "transfer" THEN {"from", "to"}
    ELSE {"sourceAccount", "targetAccount", "usdCashbookAccount", "eurCashbookAccount"}

Mismatched(p) ==
    {n \in Touched(op[p]) :
        mem[p][n].balance # SumAmounts({r \in View(db, pend[p]).ledger :
                                           r.account = mem[p][n].id})}

Imbalanced(p) ==
    {c \in Currency : SumAmounts({r \in View(db, pend[p]).ledger : r.currency = c}) # 0}

\* C35: in every Transfer and Exchange the ledger zero-sum check and the
\* account/ledger check of every account touched (two for a transfer, four for
\* an exchange) run after all inserts and saves of the call and before the
\* commit; the commit is reached only when all of them passed, and a failed
\* check aborts the call with LedgerImbalance or AccountBalanceMismatch.
ChecksGuardCommit ==
    [][\A p \in Procs :
         op[p].kind \in {"transfer", "exchange"}
         => /\ pc[p] \in {"checkLedger", "checkAccounts", "commit"} /\ pc'[p] # "idle"
                 => pend'[p] \in {pend[p], EmptyTx}
            /\ pc[p] # "checkLedger" /\ pc'[p] = "checkLedger"
                 => /\ pc[p] \in {"t_exec", "x_exec"}
                    /\ pend'[p].ledger # {} /\ pend'[p].accounts # NoRows
            /\ pc[p] = "checkLedger" /\ pc'[p] # pc[p]
                 => IF Imbalanced(p) = {} THEN pc'[p] = "checkAccounts"
                    ELSE pc'[p] = "rollback" /\ err'[p].kind = "LedgerImbalance"
            /\ pc[p] = "checkAccounts" /\ pc'[p] # pc[p]
                 => IF Mismatched(p) = {} THEN pc'[p] = "commit"
                    ELSE pc'[p] = "rollback" /\ err'[p].kind = "AccountBalanceMismatch"
            /\ pc[p] # "commit" /\ pc'[p] = "commit" => pc[p] = "checkAccounts"
            /\ pc[p] = "rollback" /\ pc'[p] = "done"
                 => result'[p] = err[p] /\ db' = db]_vars

FailedCheckWitness ==
    \E p \in Procs :
        /\ pc[p] = "done"
        /\ op[p].kind \in {"transfer", "exchange"}
        /\ result[p].kind = "AccountBalanceMismatch"

(***************************************************************************)
(* Balanced ledger entries (Spec).                                         *)
(***************************************************************************)
\* Pairs of records the builders are never handed by the handlers: unequal
\* amounts and unequal currencies among them.
ProbeRecords ==
    {NewLedgerRecord(<<0, 0>>, 0, CashbookUSD, Money(a, c)) :
        a \in {-Unit, -SubCent, 0, SubCent, Unit}, c \in Currency}

EntrySums(L) ==
    \A t \in {r.transaction : r \in L} : \A c \in Currency :
        SumAmounts({r \in L : r.transaction = t /\ r.currency = c}) = 0

\* C36: the ledger records one operation emits sum to zero within each currency
\* they touch (the two records of a transfer; the source pair and the target
\* pair of an exchange), in the rows a worker has written and in the committed
\* ledger, and a builder hands out an entry only for a pair that is of one
\* currency and sums to zero.
EntriesBalanced ==
    /\ EntrySums(db.ledger)
    /\ \A p \in Procs : EntrySums(pend[p].ledger)
    /\ \A a, b \in ProbeRecords :
           ValidateBalancedEntry(a, b) = NoError
           <=> (a.currency = b.currency /\ a.amount + b.amount = 0)
    /\ \A ed \in db.exchangeDetails :
           \A c \in {ed.sourceCurrency, ed.targetCurrency} :
               Cardinality({r \in db.ledger : r.transaction = ed.transaction
                                              /\ r.currency = c}) = 2

ExchangeEntriesWitness ==
    \E ed \in db.exchangeDetails : \E td \in db.transferDetails :
        /\ Cardinality({r \in db.ledger : r.transaction = ed.transaction}) = 4
        /\ Cardinality({r \in db.ledger : r.transaction = td.transaction}) = 2

(***************************************************************************)
(* Currencies of the stored details (SpecOps).                             *)
(***************************************************************************)
SenderOf(d, td) == (CHOOSE t \in d.transactions : t.id = td.transaction).account

DetailsCurrencies(d) ==
    /\ \A td \in d.transferDetails :
           /\ d.accounts[SenderOf(d, td)].currency = td.currency
           /\ d.accounts[td.recipient].currency = td.currency
    /\ \A ed \in d.exchangeDetails :
           /\ d.accounts[ed.sourceAccount].currency = ed.sourceCurrency
           /\ d.accounts[ed.targetAccount].currency = ed.targetCurrency
           /\ ed.sourceCurrency # ed.targetCurrency

\* C37: in every committed state each transfer_details row has the currency of
\* both its sender and its recipient account, each exchange_details row has the
\* source account's currency as its source currency, the target account's as
\* its target currency, and the two differ; no step changes the currency of an
\* account.
DetailsMatchAccountCurrencies ==
    /\ [](DetailsCurrencies(db))
    /\ [][\A id \in DOMAIN db.accounts :
            /\ id \in DOMAIN db'.accounts
            /\ db'.accounts[id].currency = db.accounts[id].currency]_vars

\* Committed: a transfer and an exchange, after calls in the other currency
\* were tried.
BothDetailsWitness ==
    /\ db.transferDetails # {}
    /\ db.exchangeDetails # {}
    /\ pc[Caller] = "done"
    /\ result[Caller].kind = "CurrencyMismatch"

(***************************************************************************)
(* Conservation of stored money (Spec).                                    *)
(***************************************************************************)
RECURSIVE SumBalances(_, _)
SumBalances(accounts, ids) ==
    IF ids = {} THEN 0
    ELSE LET id == CHOOSE x \in ids : TRUE
         IN  accounts[id].balance + SumBalances(accounts, ids \ {id})

\* C38: in every committed state, for each currency, the stored balances of
\* all accounts of that currency, the cashbook included, sum to 0: no
\* operation creates or destroys stored money.
StoredMoneyConserved ==
    \A c \in Currency : SumBalances(db.accounts, AccountsIn(c)) = 0

(***************************************************************************)
(* Rounding over a round trip (SpecRoundTrip).                             *)
(***************************************************************************)
\* What the exchange of p credits to its target account in the step that
\* commits it.
Credited(p) ==
    db'.accounts[op[p].targetAccount].balance - db.accounts[op[p].targetAccount].balance

ExchangesBack(p) == Succeeds(p, "exchange") /\ "original" \in DOMAIN op[p]

\* C39: exchanging a positive amount x of two decimals into the other currency
\* and the whole received amount back, at the provider's rates r and
\* round6(1/r), never returns more than x of the original currency.
RoundTripNeverGains ==
    [][\A p \in Procs : ExchangesBack(p) => Credited(p) <= op[p].original.amount]_vars

\* The provider's two rates multiply to 1.00000044 and each conversion rounds
\* by at most half a cent, so the round trip of x can exceed x by one cent,
\* and by one further cent for every full 21,739.00 of x.
GainBound(x) == Cent * (1 + x \div (21739 * Unit))

\* C39, amended: the round trip returns at most x plus one cent, plus one
\* further cent for every full 21,739.00 of x.
RoundTripGainBounded ==
    [][\A p \in Procs :
         ExchangesBack(p)
         => Credited(p) <= op[p].original.amount + GainBound(op[p].original.amount)]_vars

\* 22,233.31 USD went out as 20,454.65 EUR, which came back as 22,233.33 USD:
\* two cents more, the bound for an amount above 21,739.00.
RoundTripGainWitness ==
    /\ pc[Caller] = "done" /\ result[Caller] = NoError
    /\ "original" \in DOMAIN op[Caller]
    /\ op[Caller].original = Money(22233 * Unit + 31 * Cent, "USD")
    /\ op[Caller].sourceAmount = Money(20454 * Unit + 65 * Cent, "EUR")
    /\ db.accounts[UsdAccountOf(1)].balance =
          InitialUSD + 21233 * Unit + 31 * Cent + 2 * Cent

(***************************************************************************)
(* The preview and the execution (SpecPreview).                            *)
(***************************************************************************)
\* C40: the target amount Service.CalculateExchangeAmount returns for a source
\* amount and a target currency is the amount a successful Exchange of that
\* source amount credits to a target account of that currency, and the preview
\* itself opens no transaction, takes no lock and changes no stored row.
PreviewAgreesWithExecution ==
    [][\A p \in Procs :
         /\ op[p].kind = "preview"
            => /\ db' = db /\ locks' = locks /\ pend' = pend
               /\ pend[p] = EmptyTx
               /\ pc[p] = "p_exec" /\ pc'[p] = "done" /\ result'[p] = NoError
                    => mem'[p].value.targetAmount =
                          ServiceCalculateExchangeAmount(op[p].sourceAmount,
                                                         op[p].targetCurrency).targetAmount
         /\ Succeeds(p, "exchange")
            => Money(Credited(p), db.accounts[op[p].targetAccount].currency) =
                  ServiceCalculateExchangeAmount(
                      op[p].sourceAmount,
                      db.accounts[op[p].targetAccount].currency).targetAmount]_vars

\* 123.45 USD were exchanged into 113.57 EUR and the preview of the same
\* amount answers 113.57 EUR.
PreviewWitness ==
    /\ pc[Caller] = "done" /\ result[Caller] = NoError
    /\ op[Caller].kind = "preview"
    /\ op[Caller].sourceAmount = Money(123 * Unit + 45 * Cent, "USD")
    /\ mem[Caller].value.targetAmount = Money(113 * Unit + 57 * Cent, "EUR")
    /\ db.accounts[EurAccountOf(1)].balance = InitialEUR + 113 * Unit + 57 * Cent
    /\ db.accounts[UsdAccountOf(1)].balance = InitialUSD - (123 * Unit + 45 * Cent)

====
